---- MODULE Spec2Model ----
(***************************************************************************)
(* Astronaut wellness dashboard: the mood tracker (FaceMoodDetection), the *)
(* games gate and redirect counter (initDashboard), the mood counselor     *)
(* (MoodCounselor), the heart-rate aggregator (BluetoothHeartRateMonitor)  *)
(* and the dataset recorder (dataset.js), coupled by window events.        *)
(*                                                                         *)
(* window.dispatchEvent is synchronous: every listener of an event runs    *)
(* inside the step that dispatches it.  Time is the value of Date.now(),   *)
(* in milliseconds since the page was loaded.                              *)
(***************************************************************************)
EXTENDS Integers, Sequences, FiniteSets, TLC

VARIABLES
  now,                  \* Date.now()
  \* FaceMoodDetection
  isModelLoaded, isCameraOn, faceDetected, lastEmotion,
  currentEmotion,       \* window.currentEmotion
  inflight,             \* detectEmotion calls awaiting the classifier
  timers,               \* deadlines of the pending no-face timeouts
  faceSince,            \* per pending timeout: a face was detected since it
                        \* was set and before its deadline
  userMediaPending,     \* startCamera calls awaiting getUserMedia
  metadataDue,          \* the video has a new source whose loadedmetadata
                        \* event has not been delivered
  detectionInterval,    \* the interval this.detectionInterval names is
                        \* set and not cleared
  strayInterval,        \* an interval that this.detectionInterval no
                        \* longer names is set (it is never cleared)
  \* initDashboard
  playBtnDisabled, playLinkAriaDisabled, sadMoodCount, hasRedirected,
  navigations,          \* assignments of 'games.html' to window.location.href
                        \* (automatic redirect, 'open games' command)
  \* MoodCounselor
  sadSince, cooldownUntil, speaking,
  line,                 \* index in messages of the utterance being spoken
  \* BluetoothHeartRateMonitor
  heartRateData,
  \* the health panel of the dashboard
  health,               \* the numbers the elements heart-rate, o2-level
                        \* (in tenths) and radiation (in thousandths) show
  nHealthTicks,         \* callbacks of the updateHealthData interval run
  \* dataset.js
  datasetLoaded,        \* whether the page includes dataset.js
  records,
  nStoreOps,            \* calls of DatasetStore's operations made
  lastStoreOp,          \* the latest of them and what it returned
  \* observations of the event bus and of the callers (history)
  nEmotion, lastEmotionEvent,       \* emotionchange events dispatched
  nSad,                 \* emotionchange events with emotion 'sad' dispatched
  nHeartrate, lastHeartrateEvent,   \* heartrate events dispatched
  nStress, lastStressEvent,         \* stressdetected events dispatched
  calls,                \* arguments of the updateCurrentEmotion calls made
  samples,              \* accepted heart-rate samples, in arrival order
  lastPacket,           \* bytes of the latest notified characteristic value
  nDiscarded,           \* notifications that dispatched nothing
  nSequences,           \* support sequences started
  lastTrigger,          \* time at which the latest support sequence started
  away,                 \* a non-trigger emotion arrived during the sequence
  \* the games link
  nClicks,              \* clicks on the games link handled
  nFollowed,            \* of these, clicks whose default action went ahead
  \* MaitriAssistant
  aiMessage,            \* aiMessageContainer.textContent
  asks,                 \* the analyzeToneAndRespond calls made, in order;
                        \* of each: where it stands (call), its loop
                        \* variable i (attempt), its variable delay, the
                        \* deadline of its backoff timeout (wakeAt), the
                        \* requests it has sent (nRequests), the backoff
                        \* waits it has started (waits) and the status of
                        \* the response to its latest request (lastStatus)
  nQueries,             \* analyzeToneAndRespond calls made
  utterance,            \* the utterance MaitriAssistant.speak has handed
                        \* to speechSynthesis last, and how far it is
  welcomeDue,           \* the welcome timeout has not fired
  \* the voice button and the speech recognition
  isListening,          \* initDashboard's isListening
  micListening,         \* mic-container carries the class 'listening'
  assistantIsListening, \* MaitriAssistant's this.isListening
  recognition,          \* this.recognition: "none" (null) or its state
  nVoiceClicks,         \* clicks on the voice button handled
  lastVoiceCall,        \* what the latest click called on the assistant
  \* games.html: the two mini-games and the browser's animation frames
  running,              \* each game's `running`
  rafId,                \* each game's `rafId` (NoHandle for null)
  rafQueue,             \* pending requestAnimationFrame callbacks, in order
  nextHandle,           \* the handle the next request returns
  nStarts,              \* clicks on the Start buttons handled
  nFrames,              \* animation frames run
  frameUpdates          \* update() calls of each game in the latest frame

cameraVars    == <<userMediaPending, metadataDue, detectionInterval,
                   strayInterval>>
trackerVars   == <<isModelLoaded, isCameraOn, faceDetected, lastEmotion,
                   currentEmotion, inflight, timers, faceSince, cameraVars>>
dashboardVars == <<playBtnDisabled, playLinkAriaDisabled, sadMoodCount,
                   hasRedirected, navigations>>
counselorVars == <<sadSince, cooldownUntil, speaking, line, nSequences,
                   lastTrigger, away>>
healthVars    == <<health, nHealthTicks>>
heartVars     == <<heartRateData, nHeartrate, lastHeartrateEvent, nStress,
                   lastStressEvent, samples, lastPacket, nDiscarded,
                   healthVars>>
emotionBusVars == <<nEmotion, lastEmotionEvent, nSad>>
linkVars      == <<nClicks, nFollowed>>
assistantVars == <<aiMessage, asks, nQueries, utterance, welcomeDue>>
gameVars      == <<running, rafId, rafQueue, nextHandle, nStarts, nFrames,
                   frameUpdates>>
uiVars        == <<linkVars, assistantVars>>
storeVars     == <<nStoreOps, lastStoreOp>>
voiceVars     == <<isListening, micListening, assistantIsListening,
                   recognition, nVoiceClicks, lastVoiceCall>>
vars == <<now, trackerVars, dashboardVars, counselorVars, heartVars,
          emotionBusVars, datasetLoaded, storeVars, voiceVars, gameVars,
          uiVars,
          records, calls>>

----------------------------------------------------------------------------
(* Values *)

\* JavaScript null (and, for window.currentEmotion, undefined: both are
\* read through `|| null`).
null == "null"

\* Named emotions: a subset of the keys of emotionConfig.
Emotions == {"happy", "sad", "neutral"}
EmotionValues == Emotions \cup {null}

\* _sadSince == null
Absent == -1

\* No operation of DatasetStore has been called yet.
NoStoreOp == [op |-> "none", count |-> 0, records |-> <<>>]

\* games.js: Astro Flap and Orbital Breaker.
Games == {"flappy", "breaker"}

\* `let rafId = null`; the handles of requestAnimationFrame are positive.
NoHandle == 0

\* The latest request has no response (yet), or none has been sent.
NoStatus == 0

\* speechSynthesis holds no utterance of MaitriAssistant.speak.
NoUtterance == [text |-> "", stage |-> "none"]

\* No event of a type has been dispatched yet.
\* `type` is the event's name; the other fields are those of its detail
\* (`kind` being detail.type), null or 0 where the event has none.  An
\* average is the exact quotient num / den.
NoEvent == [type |-> "none", kind |-> null, emotion |-> null, value |-> 0,
            average |-> [num |-> 0, den |-> 1], at |-> -1]

\* Program constants.
requiredCount == 3
triggerEmotion == "sad"
sustainMs == 5000
cooldownMs == 90000
noFaceMs == 1000
messages == <<"notice", "breathing", "inhale", "steps">>
stressThreshold == 100
avgWindow == 10
minStressCount == 5
minCheckCount == 3
maxRetries == 3
baseDelay == 1000
minQueryLen == 5
lockedMessage == "Games unlock when your mood is detected as sad."
shortMessage == "I heard very little. Please try speaking a longer phrase."
analyzingMessage == "Analyzing your words for emotional markers..."
errorMessage ==
  "Communication with Earth AI services is delayed. Please re-state your concern or try a simple command."
apologyMessage ==
  "I'm sorry, I couldn't generate a clear response right now. Can you try again?"
generatedText == "(text generated by the language model)"
speakingMessage == "Maitri says..."
welcomeMs == 2000
welcomeMessage ==
  "Hello, Astronaut. I am Maitri, your psychological companion. Speak to me anytime you need support or guidance."
statusReply ==
  "Based on my acoustic and linguistic analysis of your recent speech, your psychological markers appear stable. Remember that self-assessment and communication are vital."
gamesLockedReply ==
  "Games are only available when you are feeling sad. Let me help you with some stress relief techniques instead."
cameraStartingReply ==
  "Starting camera for mood detection. This will help me better understand your emotional state."
cameraUnavailableReply ==
  "Camera not available or already running. How are you feeling right now?"
cameraStoppedReply ==
  "Camera stopped. Is there anything you would like to discuss?"
cameraNotRunningReply ==
  "Camera is not currently running. How can I support you today?"
goodbyeReply ==
  "Goodbye for now. Your well-being is my highest priority. I'll be here when you return."
healthEveryMs == 5000
noRecognitionMessage == "Speech recognition not available in this browser"
startFailedMessage == "Sorry, I could not start listening"

\* Bounds of the model.
MaxTime == 100000
MaxBusEvents == 4
MaxSysTime == 6000
MaxSysEvents == 4
MaxInflight == 2
MaxTimers == 2
MaxCalls == 6
MaxClicks == 2
MaxNavCalls == 5
MaxStoreOps == 3
MaxVoiceClicks == 4
MaxStarts == 3
MaxUserMedia == 2
MaxTrkMedia == 1
MaxTrkEvents == 3
MaxTrkInflight == 1
MaxTrkTimers == 1
MaxFrames == 3
MaxDsEvents == 2
MaxDsSamples == 5
MaxQueries == 3
MaxAsstTime == 4000
MaxVoiceTime == 5000
MaxAsstQueries == 2
MaxNavQueries == 2
MaxSamples == 11
MaxDiscarded == 2

----------------------------------------------------------------------------
(* dataset.js *)

\* Variant of addRecord with a plausible slip: unshift instead of push.
addRecord_unshift(log, type, payload, ts) ==
  <<[type |-> type, at |-> ts, payload |-> payload]>> \o log

\* addRecord: records.push({type, at: ts, ..., payload}); the record's iso,
\* localDate and localTime are renderings of ts.
addRecord(log, type, payload, ts) ==
  Append(log, [type |-> type, at |-> ts, payload |-> payload])

\* The listeners of dataset.js, when the page includes it.
datasetOnEvent(type, payload) ==
  records' = IF datasetLoaded THEN addRecord(records, type, payload, now)
             ELSE records

\* exportJSON: the count and the records of the string it returns.
exportJSON(log) == [count |-> Len(log), records |-> log]

\* DatasetStore.getAll: records.slice()
getAll(log) == SubSeq(log, 1, Len(log))

\* Variant of clear with a plausible slip: pop() instead of length = 0.
clear_pop(log) == SubSeq(log, 1, Len(log) - 1)

\* DatasetStore.clear: records.length = 0
clear(log) == <<>>

\* The variables an operation of DatasetStore leaves alone.
restOfStore == <<now, trackerVars, dashboardVars, counselorVars, heartVars,
                 emotionBusVars, datasetLoaded, voiceVars, gameVars, calls,
                 uiVars>>

\* DatasetStore.add(type, payload), called from outside the page's scripts.
StoreAdd(type, payload) ==
  /\ datasetLoaded /\ nStoreOps < MaxStoreOps
  /\ nStoreOps' = nStoreOps + 1
  /\ records' = addRecord(records, type, payload, now)
  /\ lastStoreOp' = [NoStoreOp EXCEPT !.op = "add"]
  /\ UNCHANGED restOfStore

StoreGetAll ==
  /\ datasetLoaded /\ nStoreOps < MaxStoreOps
  /\ nStoreOps' = nStoreOps + 1
  /\ lastStoreOp' = [NoStoreOp EXCEPT !.op = "getAll",
                                      !.records = getAll(records)]
  /\ UNCHANGED <<records, restOfStore>>

StoreClear ==
  /\ datasetLoaded /\ nStoreOps < MaxStoreOps
  /\ nStoreOps' = nStoreOps + 1
  /\ records' = clear(records)
  /\ lastStoreOp' = [NoStoreOp EXCEPT !.op = "clear"]
  /\ UNCHANGED restOfStore

StoreExport ==
  /\ datasetLoaded /\ nStoreOps < MaxStoreOps
  /\ nStoreOps' = nStoreOps + 1
  /\ lastStoreOp' = [NoStoreOp EXCEPT !.op = "exportJSON",
                                      !.count = exportJSON(records).count,
                                      !.records = exportJSON(records).records]
  /\ UNCHANGED <<records, restOfStore>>

----------------------------------------------------------------------------
(* initDashboard: games gate and redirect counter *)

\* updateGamesGate: const locked = emotion !== 'sad'
gateLocked(emotion) == emotion # "sad"

ariaDisabled(locked) == IF locked THEN "true" ELSE "false"

\* Variants of shouldRedirect with a plausible slip: the latch forgotten, and
\* the threshold off by one, either way.
shouldRedirect_noLatch(redirected, count) == count >= requiredCount

shouldRedirect_early(redirected, count) ==
  ~redirected /\ count >= requiredCount - 1

shouldRedirect_late(redirected, count) == ~redirected /\ count > requiredCount

\* if (!hasRedirected && sadMoodCount >= 3)
shouldRedirect(redirected, count) == ~redirected /\ count >= requiredCount

\* Variant of initSadMoodCount with a plausible slip: no pre-seed.
initSadMoodCount_zero(emotion) == 0

\* if ((window.currentEmotion || null) === 'sad') sadMoodCount += 1
initSadMoodCount(emotion) == IF emotion = "sad" THEN 1 ELSE 0

\* Variant of dashboardOnEmotion with a plausible slip: the gate only ever
\* unlocks (a latch) instead of following the event.
dashboardOnEmotion_gateLatched(emotion) ==
  LET count  == IF emotion = "sad" THEN sadMoodCount + 1 ELSE sadMoodCount
      go     == emotion = "sad" /\ shouldRedirect(hasRedirected, count)
      locked == playBtnDisabled /\ gateLocked(emotion)
  IN  /\ playBtnDisabled' = locked
      /\ playLinkAriaDisabled' = ariaDisabled(locked)
      /\ sadMoodCount' = count
      /\ hasRedirected' = (hasRedirected \/ go)
      /\ navigations' = IF go THEN navigations + 1 ELSE navigations

\* The emotionchange listener of initDashboard.
dashboardOnEmotion(emotion) ==
  LET count == IF emotion = "sad" THEN sadMoodCount + 1 ELSE sadMoodCount
      go    == emotion = "sad" /\ shouldRedirect(hasRedirected, count)
  IN  /\ playBtnDisabled' = gateLocked(emotion)
      /\ playLinkAriaDisabled' = ariaDisabled(gateLocked(emotion))
      /\ sadMoodCount' = count
      /\ hasRedirected' = (hasRedirected \/ go)
      /\ navigations' = IF go THEN navigations + 1 ELSE navigations

\* Variant of clickPrevents with a plausible slip: only the absence of an
\* emotion locks the link.
clickPrevents_onlyNoFace(emotion) == emotion = null

\* The click listener of the games link:
\* if ((window.currentEmotion || null) !== 'sad')
clickPrevents(emotion) == emotion # "sad"

\* A click on the games link.  When the listener does not prevent it, the
\* browser goes on to the link's default action.
ClickPlayLink ==
  /\ nClicks < MaxClicks
  /\ nClicks' = nClicks + 1
  /\ IF clickPrevents(currentEmotion)
     THEN /\ aiMessage' = lockedMessage
          /\ UNCHANGED nFollowed
     ELSE /\ nFollowed' = nFollowed + 1
          /\ UNCHANGED aiMessage
  /\ UNCHANGED <<now, trackerVars, dashboardVars, counselorVars, heartVars,
                 emotionBusVars, datasetLoaded,
                 storeVars, voiceVars, gameVars, records, calls, asks,
                 nQueries, utterance, welcomeDue>>

----------------------------------------------------------------------------
(* MoodCounselor *)

\* Variant of sinceAfter with a plausible slip: every trigger-emotion event
\* restarts the streak.
sinceAfter_restart(emotion, since, t) ==
  IF emotion = triggerEmotion THEN t ELSE Absent

\* Variant of sinceAfter with a plausible slip: only the loss of the face
\* ends the streak.
sinceAfter_clearOnNullOnly(emotion, since, t) ==
  IF emotion = triggerEmotion
  THEN IF since = Absent THEN t ELSE since
  ELSE IF emotion = null THEN Absent ELSE since

\* _onEmotion: the value of _sadSince after the event.
sinceAfter(emotion, since, t) ==
  IF emotion = triggerEmotion
  THEN IF since = Absent THEN t ELSE since
  ELSE Absent

\* Variant of triggers with a plausible slip: the cooldown is not checked.
triggers_noCooldown(emotion, spk, since, cool, t) ==
  /\ emotion = triggerEmotion
  /\ ~spk
  /\ t - sinceAfter(emotion, since, t) >= sustainMs

\* Variant of triggers with a plausible slip: the streak's length is not
\* checked.
triggers_noSustain(emotion, spk, since, cool, t) ==
  /\ emotion = triggerEmotion
  /\ ~spk
  /\ t >= cool

\* Variant of triggers with a plausible slip: _speaking is not checked.
triggers_noSpeakingCheck(emotion, spk, since, cool, t) ==
  /\ emotion = triggerEmotion
  /\ t - sinceAfter(emotion, since, t) >= sustainMs
  /\ t >= cool

\* _onEmotion: whether the event calls _speakSupport.
triggers(emotion, spk, since, cool, t) ==
  /\ emotion = triggerEmotion
  /\ ~spk
  /\ t - sinceAfter(emotion, since, t) >= sustainMs
  /\ t >= cool

\* _speakSupport: this._cooldownUntil = Date.now() + this.cooldownMs
cooldownAtStart(t) == t + cooldownMs

\* Variant of speaksNext with a plausible slip: the loop runs one past the
\* end of the list.
speaksNext_pastEnd(since, ln) == since # Absent /\ ln <= Len(messages)

\* _speakSupport: after an utterance has ended, whether the loop speaks the
\* next line (if not: break, or the list is exhausted).
speaksNext(since, ln) == since # Absent /\ ln < Len(messages)

\* _onEmotion, with the synchronous part of _speakSupport (up to its first
\* await: the first utterance is handed to speechSynthesis).
counselorOnEmotion(emotion) ==
  LET go == triggers(emotion, speaking, sadSince, cooldownUntil, now)
  IN  /\ sadSince' = sinceAfter(emotion, sadSince, now)
      /\ speaking' = (speaking \/ go)
      /\ cooldownUntil' = IF go THEN cooldownAtStart(now) ELSE cooldownUntil
      /\ line' = IF go THEN 1 ELSE line
      /\ nSequences' = IF go THEN nSequences + 1 ELSE nSequences
      /\ lastTrigger' = IF go THEN now ELSE lastTrigger
      /\ away' = IF go THEN FALSE
                 ELSE (away \/ (speaking /\ emotion # triggerEmotion))

\* utter.onend resolves the promise _speakSupport awaits; the loop then
\* breaks, speaks the next line, or ends, and `finally` clears _speaking.
UtteranceEnd ==
  /\ speaking
  /\ IF speaksNext(sadSince, line)
     THEN /\ line' = line + 1
          /\ UNCHANGED <<speaking, away>>
     ELSE /\ line' = 0
          /\ speaking' = FALSE
          /\ away' = FALSE
  /\ UNCHANGED <<now, trackerVars, dashboardVars, heartVars, emotionBusVars,
                 datasetLoaded, storeVars, voiceVars, gameVars,
                 uiVars, records, calls, sadSince, cooldownUntil,
                 nSequences, lastTrigger>>

----------------------------------------------------------------------------
(* The emotionchange event *)

\* window.dispatchEvent(new CustomEvent('emotionchange', ...)): the
\* listeners of dataset.js, initDashboard and MoodCounselor run in turn.
dispatchEmotionChange(emotion) ==
  /\ datasetOnEvent("emotionchange", [emotion |-> emotion])
  /\ dashboardOnEmotion(emotion)
  /\ counselorOnEmotion(emotion)
  /\ nEmotion' = nEmotion + 1
  /\ nSad' = IF emotion = "sad" THEN nSad + 1 ELSE nSad
  /\ lastEmotionEvent' = [NoEvent EXCEPT !.type = "emotionchange",
                                         !.emotion = emotion, !.at = now]

\* An emotionchange event dispatched on window by any script of the page.
EmitEmotion(emotion) ==
  /\ nEmotion < MaxBusEvents
  /\ dispatchEmotionChange(emotion)
  /\ UNCHANGED <<now, trackerVars, heartVars, datasetLoaded,
                 storeVars, voiceVars, gameVars, uiVars, calls>>

\* Time passes.
Advance(d) ==
  /\ now + d <= MaxTime
  /\ now' = now + d
  /\ UNCHANGED <<trackerVars, dashboardVars, counselorVars, heartVars,
                 emotionBusVars, datasetLoaded,
                 storeVars, voiceVars, gameVars, uiVars, records, calls>>

----------------------------------------------------------------------------
(* FaceMoodDetection *)

\* Variants of emits with a plausible slip: the no-face branch dispatches
\* without comparing, and every call dispatches.
emits_nullUnguarded(last, x) == x = null \/ last # x

emits_always(last, x) == TRUE

\* updateCurrentEmotion: if (this.lastEmotion !== emotionData.emotion), and
\* for no face: if (this.lastEmotion !== null).
emits(last, x) == last # x

\* Variant of updateCurrentEmotion with a plausible slip: the no-face
\* branch does not reset window.currentEmotion.
updateCurrentEmotion_keepsGlobal(x) ==
  IF emits(lastEmotion, x)
  THEN /\ lastEmotion' = x
       /\ currentEmotion' = IF x = null THEN currentEmotion ELSE x
       /\ dispatchEmotionChange(x)
  ELSE UNCHANGED <<lastEmotion, currentEmotion, dashboardVars, counselorVars,
                   emotionBusVars, records>>

\* updateCurrentEmotion(emotionData), x being emotionData.emotion, or null
\* for updateCurrentEmotion(null).
updateCurrentEmotion(x) ==
  IF emits(lastEmotion, x)
  THEN /\ lastEmotion' = x
       /\ currentEmotion' = x
       /\ dispatchEmotionChange(x)
  ELSE UNCHANGED <<lastEmotion, currentEmotion, dashboardVars, counselorVars,
                   emotionBusVars, records>>

\* init(): loadModels() has succeeded and the listeners are set up.
LoadModels ==
  /\ ~isModelLoaded
  /\ isModelLoaded' = TRUE
  /\ UNCHANGED <<now, cameraVars,
                 isCameraOn, faceDetected, lastEmotion, currentEmotion,
                 inflight, timers, faceSince, dashboardVars, counselorVars,
                 heartVars,
                 emotionBusVars, datasetLoaded,
                 storeVars, voiceVars, gameVars, uiVars, records, calls>>

\* startCamera(), up to `await getUserMedia`.
startCamera ==
  /\ userMediaPending' = userMediaPending + 1
  /\ UNCHANGED <<isCameraOn, faceDetected, lastEmotion, currentEmotion,
                 metadataDue, detectionInterval, strayInterval,
                 dashboardVars, counselorVars, emotionBusVars, records>>

\* stopCamera(): clearInterval(this.detectionInterval) clears the interval
\* set last; pending timeouts, classifier calls and getUserMedia calls
\* are not cancelled.
stopCamera ==
  /\ detectionInterval' = FALSE
  /\ isCameraOn' = FALSE
  /\ faceDetected' = FALSE
  /\ updateCurrentEmotion(null)
  /\ UNCHANGED <<userMediaPending, metadataDue, strayInterval>>

\* The click listener of the camera button:
\* this.isCameraOn ? this.stopCamera() : this.startCamera()
cameraClick == IF isCameraOn THEN stopCamera ELSE startCamera

\* Click on the camera button while isCameraOn is false.  The listener is
\* registered, and the button enabled, once loadModels() has succeeded.
StartCamera ==
  /\ isModelLoaded /\ ~isCameraOn
  /\ userMediaPending < MaxUserMedia
  /\ cameraClick
  /\ UNCHANGED <<now, isModelLoaded, inflight, timers, faceSince, heartVars,
                 datasetLoaded, storeVars, voiceVars, gameVars, uiVars, calls>>

\* Click on the camera button while isCameraOn is true.
StopCamera ==
  /\ isModelLoaded /\ isCameraOn
  /\ nEmotion < MaxSysEvents
  /\ cameraClick
  /\ UNCHANGED <<now, isModelLoaded, inflight, timers, faceSince, heartVars,
                 datasetLoaded, storeVars, voiceVars, gameVars, uiVars, calls>>

\* getUserMedia resolves: startCamera() goes on after its await.  The video
\* gets the stream as its source.
UserMediaResolves ==
  /\ userMediaPending > 0
  /\ userMediaPending' = userMediaPending - 1
  /\ isCameraOn' = TRUE
  /\ metadataDue' = TRUE
  /\ UNCHANGED <<now, isModelLoaded, faceDetected, lastEmotion,
                 currentEmotion, inflight, timers, faceSince,
                 detectionInterval, strayInterval, dashboardVars,
                 counselorVars, heartVars,
                 emotionBusVars, datasetLoaded, storeVars, voiceVars,
                 gameVars, uiVars, records, calls>>

\* getUserMedia rejects: the catch block of startCamera().
UserMediaRejects ==
  /\ userMediaPending > 0
  /\ userMediaPending' = userMediaPending - 1
  /\ UNCHANGED <<now, isModelLoaded, isCameraOn, faceDetected, lastEmotion,
                 currentEmotion, inflight, timers, faceSince, metadataDue,
                 detectionInterval, strayInterval, dashboardVars,
                 counselorVars, heartVars, emotionBusVars, datasetLoaded, storeVars,
                 voiceVars, gameVars, uiVars, records, calls>>

\* The video's loadedmetadata event:
\* this.detectionInterval = setInterval(() => this.detectEmotion(), 200).
\* The interval the field named before, if still set, stays set.
LoadedMetadata ==
  /\ metadataDue
  /\ metadataDue' = FALSE
  /\ detectionInterval' = TRUE
  /\ strayInterval' = (strayInterval \/ detectionInterval)
  /\ UNCHANGED <<now, isModelLoaded, isCameraOn, faceDetected, lastEmotion,
                 currentEmotion, inflight, timers, faceSince,
                 userMediaPending, dashboardVars, counselorVars, heartVars,
                 emotionBusVars, datasetLoaded, storeVars, voiceVars,
                 gameVars, uiVars, records, calls>>

\* An interval calls detectEmotion(), which passes its guard (the camera
\* is on, the models are loaded and video.readyState is 4, which the video
\* reaches only after the metadata of its source) and awaits the
\* classifier.
Poll ==
  /\ detectionInterval \/ strayInterval
  /\ isCameraOn /\ isModelLoaded /\ ~metadataDue
  /\ inflight < MaxInflight
  /\ inflight' = inflight + 1
  /\ UNCHANGED <<now, cameraVars,
                 isModelLoaded, isCameraOn, faceDetected, lastEmotion,
                 currentEmotion, timers, faceSince, dashboardVars,
                 counselorVars,
                 heartVars, emotionBusVars, datasetLoaded, storeVars,
                 voiceVars, gameVars,
                 uiVars, records, calls>>

\* The classifier answers a pending detectEmotion(): r is the strongest
\* expression of the detected face, or null when there is no face.
DetectionDone(r) ==
  /\ inflight > 0
  /\ nEmotion < MaxSysEvents
  /\ inflight' = inflight - 1
  /\ IF r # null
     THEN /\ faceDetected' = TRUE
          /\ updateCurrentEmotion(r)
          /\ faceSince' = [i \in DOMAIN timers |->
                             faceSince[i] \/ now < timers[i]]
          /\ UNCHANGED timers
     ELSE /\ Len(timers) < MaxTimers
          /\ faceDetected' = FALSE
          /\ timers' = Append(timers, now + noFaceMs)
          /\ faceSince' = Append(faceSince, FALSE)
          /\ UNCHANGED <<lastEmotion, currentEmotion, dashboardVars,
                         counselorVars, emotionBusVars, records>>
  /\ UNCHANGED <<now, cameraVars,
                 isModelLoaded, isCameraOn, heartVars, datasetLoaded,
                 storeVars, voiceVars, gameVars,
                 uiVars,
                 calls>>

\* A no-face timeout fires, no earlier than 1000 ms after it was set:
\* if (!this.faceDetected) this.updateCurrentEmotion(null).
TimerFire ==
  /\ timers # <<>>
  /\ now >= Head(timers)
  /\ nEmotion < MaxSysEvents
  /\ timers' = Tail(timers)
  /\ faceSince' = Tail(faceSince)
  /\ IF ~faceDetected
     THEN updateCurrentEmotion(null)
     ELSE UNCHANGED <<lastEmotion, currentEmotion, dashboardVars,
                      counselorVars, emotionBusVars, records>>
  /\ UNCHANGED <<now, cameraVars,
                 isModelLoaded, isCameraOn, faceDetected, inflight,
                 heartVars, datasetLoaded, storeVars, voiceVars, gameVars,
                 uiVars,
                 calls>>

\* A direct call updateCurrentEmotion(x), its argument noted.
CallUpdate(x) ==
  /\ Len(calls) < MaxCalls
  /\ calls' = Append(calls, x)
  /\ updateCurrentEmotion(x)
  /\ UNCHANGED <<now, cameraVars,
                 isModelLoaded, isCameraOn, faceDetected, inflight,
                 timers, faceSince, heartVars, datasetLoaded,
                 storeVars, voiceVars, gameVars, uiVars>>

----------------------------------------------------------------------------
(* BluetoothHeartRateMonitor *)

RECURSIVE Sum(_)
\* heartRateData.reduce((a, b) => a + b, 0)
Sum(s) == IF s = <<>> THEN 0 ELSE Head(s) + Sum(Tail(s))

\* parseHeartRate: data is the characteristic's bytes, data[1] here being
\* data[0] there.  A missing data[2] reads as undefined, and undefined << 8
\* is 0; for bytes, a | (b << 8) is a + 256 * b.
parseHeartRate(data) ==
  IF Len(data) >= 2
  THEN IF data[1] % 2 = 1
       THEN data[2] + 256 * (IF Len(data) >= 3 THEN data[3] ELSE 0)
       ELSE data[2]
  ELSE 0

\* Variant of pushWindow with a plausible slip: nothing is evicted.
pushWindow_noEvict(data, hr) == Append(data, hr)

\* Variant of pushWindow with a plausible slip: pop instead of shift, so the
\* newest value is dropped from a full window.
pushWindow_dropNewest(data, hr) ==
  LET d == Append(data, hr)
  IN  IF Len(d) > avgWindow THEN SubSeq(d, 1, Len(d) - 1) ELSE d

\* updateHeartRate: push, then shift when longer than avgWindow.
pushWindow(data, hr) ==
  LET d == Append(data, hr)
  IN  IF Len(d) > avgWindow THEN Tail(d) ELSE d

\* sum / length.  The sum of at most ten 16-bit values is exact in a double
\* and the quotient is the double nearest to the exact one, so comparing it
\* with 100 decides as the exact quotient does.
average(data) == [num |-> Sum(data), den |-> Len(data)]

\* Variant of stressQualifies with a plausible slip: the first length check
\* (three readings) is taken to be the only one.
stressQualifies_atThree(data) ==
  /\ Len(data) >= minCheckCount
  /\ average(data).num > stressThreshold * average(data).den

\* checkForStress: whether triggerStressRelief is called.
stressQualifies(data) ==
  /\ Len(data) >= minCheckCount
  /\ average(data).num > stressThreshold * average(data).den
  /\ Len(data) >= minStressCount

\* Variant of heartrateEvent with a plausible slip: the average is taken
\* before the sample is inserted.
heartrateEvent_stale(data, hr) ==
  [NoEvent EXCEPT !.type = "heartrate", !.value = hr,
                  !.average = average(heartRateData), !.at = now]

\* updateHeartRate: the detail of the heartrate event.
heartrateEvent(data, hr) ==
  [NoEvent EXCEPT !.type = "heartrate", !.value = hr,
                  !.average = average(data), !.at = now]

\* Variant of stressEvent with a plausible slip: the value is read from the
\* front of the window instead of its end.
stressEvent_front(data) ==
  [NoEvent EXCEPT !.type = "stressdetected", !.kind = "high_heart_rate",
                  !.value = data[1],
                  !.average = average(data), !.at = now]

\* triggerStressRelief: the detail of the stressdetected event.
stressEvent(data) ==
  [NoEvent EXCEPT !.type = "stressdetected", !.kind = "high_heart_rate",
                  !.value = data[Len(data)],
                  !.average = average(data), !.at = now]

\* The listeners of dataset.js for the events of one accepted sample.
datasetOnHeart(hrEv, stress, stEv) ==
  LET r1 == addRecord(records, "heartrate",
                      [value |-> hrEv.value, average |-> hrEv.average], now)
      r2 == addRecord(r1, "stressdetected",
                      [type |-> stEv.kind, value |-> stEv.value,
                       average |-> stEv.average], now)
  IN  records' = IF ~datasetLoaded THEN records
                 ELSE IF stress THEN r2 ELSE r1

\* Variant of accepts with a plausible slip: zero is let through.
accepts_nonNegative(hr) == hr >= 0

\* onHeartRateChanged: if (heartRate > 0)
accepts(hr) == hr > 0

\* onHeartRateChanged: the characteristic notifies a value.
HeartRateChanged(packet) ==
  LET hr == parseHeartRate(packet)
      data == pushWindow(heartRateData, hr)
      stress == stressQualifies(data)
  IN  IF accepts(hr)
      THEN /\ Len(samples) < MaxSamples
           /\ samples' = Append(samples, hr)
           /\ lastPacket' = packet
           /\ UNCHANGED nDiscarded
           \* updateHeartRate
           /\ health' = [health EXCEPT !.heartRate = hr]
           /\ UNCHANGED nHealthTicks
           /\ heartRateData' = data
           /\ nHeartrate' = nHeartrate + 1
           /\ lastHeartrateEvent' = heartrateEvent(data, hr)
           \* checkForStress
           /\ nStress' = IF stress THEN nStress + 1 ELSE nStress
           /\ lastStressEvent' = IF stress THEN stressEvent(data)
                                 ELSE lastStressEvent
           /\ datasetOnHeart(heartrateEvent(data, hr), stress,
                             stressEvent(data))
           /\ UNCHANGED <<now, trackerVars, dashboardVars, counselorVars,
                          emotionBusVars, datasetLoaded,
                          storeVars, voiceVars, gameVars, uiVars, calls>>
      ELSE /\ nDiscarded < MaxDiscarded
           /\ nDiscarded' = nDiscarded + 1
           /\ lastPacket' = packet
           /\ UNCHANGED <<now, trackerVars, dashboardVars, counselorVars,
                          emotionBusVars, datasetLoaded, storeVars,
                          voiceVars, gameVars,
                          uiVars, records, calls,
                          heartRateData, nHeartrate, lastHeartrateEvent,
                          nStress, lastStressEvent, samples, healthVars>>

----------------------------------------------------------------------------
(* The health panel: updateHealthData, and the texts its elements show *)

\* String(x) of a number with at most one decimal, given in tenths.
tenthsText(t) ==
  IF t % 10 = 0 THEN ToString(t \div 10)
  ELSE ToString(t \div 10) \o "." \o ToString(t % 10)

\* String(x) of a number from 0.100 to 0.999, given in thousandths m: the
\* trailing zeros are not written.
thousandthsText(m) ==
  "0." \o (IF m % 100 = 0 THEN ToString(m \div 100)
           ELSE IF m % 10 = 0 THEN ToString(m \div 10)
           ELSE ToString(m))

\* textContent of the element heart-rate.
heartRateText(h) == ToString(h.heartRate) \o " BPM"

\* textContent of the element o2-level.
o2LevelText(h) == tenthsText(h.o2Level) \o " %"

\* textContent of the element radiation.
radiationText(h) == thousandthsText(h.radiation) \o " mSv/h"

\* A callback of the updateHealthData interval runs, no earlier than its
\* turn, and draws the readings r.  The welcome timeout, set in the same
\* task and due 3000 ms before the first turn, has run by then (timers run
\* in the order in which they fall due).
UpdateHealthData(r) ==
  /\ now >= healthEveryMs * (nHealthTicks + 1)
  /\ ~welcomeDue
  /\ nHealthTicks' = nHealthTicks + 1
  /\ health' = r
  /\ UNCHANGED <<now, trackerVars, dashboardVars, counselorVars,
                 heartRateData, nHeartrate, lastHeartrateEvent, nStress,
                 lastStressEvent, samples, lastPacket, nDiscarded,
                 emotionBusVars, datasetLoaded, storeVars, voiceVars,
                 gameVars, uiVars, records, calls>>

----------------------------------------------------------------------------
(* MaitriAssistant: analyzeToneAndRespond, handleFunctionalCommands, speak *)

\* A two-digit number.
twoDigits(n) == IF n < 10 THEN "0" \o ToString(n) ELSE ToString(n)

\* new Date().toLocaleTimeString([], { hour: '2-digit', minute: '2-digit' })
\* when the clock reads c, in a browser whose locale is en-US.
timeText(c) ==
  twoDigits(IF c.hour % 12 = 0 THEN 12 ELSE c.hour % 12) \o ":"
    \o twoDigits(c.minute) \o (IF c.hour < 12 THEN " AM" ELSE " PM")

\* What handleFunctionalCommands answers to 'time'.
timeReply(c) ==
  "The current time is " \o timeText(c)
    \o ". How are you feeling right now?"

\* What it answers to 'check heart rate'.
heartRateReply(h) ==
  "Your current heart rate is " \o heartRateText(h)
    \o ". Is there anything causing you stress right now?"

\* What it answers to 'check health status'.
healthReply(h) ==
  "Health status: Heart rate " \o heartRateText(h)
    \o ", Oxygen level " \o o2LevelText(h)
    \o ", Radiation " \o radiationText(h)
    \o ". All systems nominal. How is your mental state?"

\* Readings of the clock: midnight and 13:05.
ClockReadings == {[hour |-> 0, minute |-> 0], [hour |-> 13, minute |-> 5]}

\* The variables an action of the assistant leaves alone.
restOfPage == <<now, trackerVars, dashboardVars, counselorVars, heartVars,
                emotionBusVars, datasetLoaded,
                storeVars, voiceVars, gameVars, records, calls, linkVars>>

\* What a click on the camera button can change.
cameraTouched == <<userMediaPending, isCameraOn, faceDetected, lastEmotion,
                   currentEmotion, metadataDue, detectionInterval,
                   strayInterval, dashboardVars, counselorVars,
                   emotionBusVars, records>>

\* A call of analyzeToneAndRespond as it starts: d is its variable delay.
NewCall(stage, requests, d) ==
  [call |-> stage, attempt |-> 0, delay |-> d, wakeAt |-> Absent,
   nRequests |-> requests, waits |-> <<>>, lastStatus |-> NoStatus]

\* speak(text): speechSynthesis.cancel() drops the utterance handed over
\* before, which gets an error event and no further start or end event (it
\* has no error handler); the new utterance waits for its start event.
speak(text) == utterance' = [text |-> text, stage |-> "pending"]

\* fetchResponse.ok
isOk(status) == status \in 200..299

\* Variant of retries with a plausible slip: every response that is not ok
\* is retried.
retries_anyFailure(status, i) == ~isOk(status) /\ i < maxRetries - 1

\* else if (fetchResponse.status === 429 && i < maxRetries - 1)
retries(status, i) == status = 429 /\ i < maxRetries - 1

\* The call c when it has ended (its locals are gone).
ended(c) ==
  [c EXCEPT !.call = "done", !.attempt = 0, !.delay = 0, !.wakeAt = Absent]

\* The catch block (and the end of the call): call k ends as c.
fallback(k, c) ==
  /\ aiMessage' = errorMessage
  /\ speak(errorMessage)
  /\ asks' = [asks EXCEPT ![k] = ended(c)]

\* Variant of openGamesNavigates with a plausible slip: the mood is not
\* checked.
openGamesNavigates_always(emotion) == TRUE

\* handleFunctionalCommands, 'open games':
\* if (window.currentEmotion === 'sad') window.location.href = 'games.html'
openGamesNavigates(emotion) == emotion = "sad"

\* handleFunctionalCommands(command), when it returns true.  cmd is the
\* branch taken: "status", "time", "heartRate", "health", "startCamera",
\* "stopCamera", "openGames" or "goodbye".  The elements of the health
\* panel are in the page (initDashboard writes them).  The camera button is
\* enabled once the models are loaded, and its text holds 'Stop' while
\* isCameraOn is true (updateCameraUI); cameraBtn.click() runs the button's
\* click listener.
handleFunctionalCommands(cmd) ==
  CASE cmd = "status" -> speak(statusReply) /\ UNCHANGED cameraTouched
    [] cmd = "time" ->
         /\ \E c \in ClockReadings : speak(timeReply(c))
         /\ UNCHANGED cameraTouched
    [] cmd = "heartRate" ->
         speak(heartRateReply(health)) /\ UNCHANGED cameraTouched
    [] cmd = "health" ->
         speak(healthReply(health)) /\ UNCHANGED cameraTouched
    [] cmd = "openGames" ->
         IF openGamesNavigates(currentEmotion)
         THEN /\ navigations' = navigations + 1
              /\ UNCHANGED <<utterance, userMediaPending, isCameraOn,
                             faceDetected, lastEmotion, currentEmotion,
                             metadataDue, detectionInterval, strayInterval,
                             playBtnDisabled, playLinkAriaDisabled,
                             sadMoodCount, hasRedirected, counselorVars,
                             emotionBusVars, records>>
         ELSE /\ speak(gamesLockedReply)
              /\ UNCHANGED cameraTouched
    [] cmd = "startCamera" ->
         IF isModelLoaded
         THEN cameraClick /\ speak(cameraStartingReply)
         ELSE speak(cameraUnavailableReply) /\ UNCHANGED cameraTouched
    [] cmd = "stopCamera" ->
         IF isCameraOn
         THEN cameraClick /\ speak(cameraStoppedReply)
         ELSE speak(cameraNotRunningReply) /\ UNCHANGED cameraTouched
    [] cmd = "goodbye" -> speak(goodbyeReply) /\ UNCHANGED cameraTouched

\* analyzeToneAndRespond(userQuery), up to its first await.  q.len is
\* userQuery.length and q.cmd the branch handleFunctionalCommands takes
\* ("none": it returns false); shown is the text of the message container
\* when the call starts.
analyzeToneAndRespond(q, shown) ==
  /\ nQueries' = nQueries + 1
  /\ IF q.len < minQueryLen
     THEN /\ aiMessage' = shortMessage
          /\ speak(shortMessage)
          /\ asks' = Append(asks, NewCall("done", 0, 0))
          /\ UNCHANGED cameraTouched
     ELSE IF q.cmd # "none"
     THEN /\ aiMessage' = shown
          /\ handleFunctionalCommands(q.cmd)
          /\ asks' = Append(asks, NewCall("done", 0, 0))
     ELSE /\ aiMessage' = analyzingMessage
          /\ asks' = Append(asks, NewCall("fetching", 1, baseDelay))
          /\ UNCHANGED <<utterance, cameraTouched>>

\* The commands that click the camera button.
clicksCamera(q) ==
  q.len >= minQueryLen /\ q.cmd \in {"startCamera", "stopCamera"}

\* analyzeToneAndRespond(userQuery) is called.
Ask(q) ==
  /\ nQueries < MaxQueries
  /\ clicksCamera(q) =>
       nEmotion < MaxSysEvents /\ userMediaPending < MaxUserMedia
  /\ analyzeToneAndRespond(q, aiMessage)
  /\ UNCHANGED <<now, isModelLoaded, inflight, timers, faceSince, heartVars,
                 datasetLoaded, storeVars, voiceVars, gameVars, calls,
                 linkVars, welcomeDue>>

\* The promise of fetch of call k resolves with a response.
Respond(k, status) ==
  /\ asks[k].call = "fetching"
  /\ LET c == [asks[k] EXCEPT !.lastStatus = status]
     IN  IF isOk(status)
         THEN /\ asks' = [asks EXCEPT ![k] = [c EXCEPT !.call = "parsing"]]
              /\ UNCHANGED <<aiMessage, utterance>>
         ELSE IF retries(status, c.attempt)
         THEN /\ asks' = [asks EXCEPT ![k] =
                            [c EXCEPT !.call = "backoff",
                                      !.wakeAt = now + c.delay,
                                      !.waits = Append(@, c.delay)]]
              /\ UNCHANGED <<aiMessage, utterance>>
         ELSE fallback(k, c)
  /\ UNCHANGED <<restOfPage, nQueries, welcomeDue>>

\* The promise of fetch of call k rejects (the request itself fails).
FetchRejects(k) ==
  /\ asks[k].call = "fetching"
  /\ fallback(k, asks[k])
  /\ UNCHANGED <<restOfPage, nQueries, welcomeDue>>

\* The backoff timeout of call k fires: delay *= 2; continue, i.e. i++ and
\* the loop test, then the next fetch, or `if (!response) throw` after the
\* loop.
BackoffDone(k) ==
  /\ asks[k].call = "backoff"
  /\ now >= asks[k].wakeAt
  /\ IF asks[k].attempt + 1 < maxRetries
     THEN /\ asks' = [asks EXCEPT ![k] =
                        [@ EXCEPT !.call = "fetching",
                                  !.attempt = @ + 1,
                                  !.delay = @ * 2,
                                  !.wakeAt = Absent,
                                  !.nRequests = @ + 1,
                                  !.lastStatus = NoStatus]]
          /\ UNCHANGED <<aiMessage, utterance>>
     ELSE fallback(k, asks[k])
  /\ UNCHANGED <<restOfPage, nQueries, welcomeDue>>

\* fetchResponse.json() of call k resolves with the body: "text" when it
\* holds a non-empty candidates[0].content.parts[0].text, "null" when it is
\* null (`if (!response) throw`), "noText" otherwise.
ParseDone(k, body) ==
  /\ asks[k].call = "parsing"
  /\ IF body = "null"
     THEN fallback(k, asks[k])
     ELSE LET text == IF body = "text" THEN generatedText
                      ELSE apologyMessage
          IN  /\ aiMessage' = text
              /\ speak(text)
              /\ asks' = [asks EXCEPT ![k] = ended(@)]
  /\ UNCHANGED <<restOfPage, nQueries, welcomeDue>>

\* fetchResponse.json() of call k rejects (the body is not JSON).
ParseRejects(k) ==
  /\ asks[k].call = "parsing"
  /\ fallback(k, asks[k])
  /\ UNCHANGED <<restOfPage, nQueries, welcomeDue>>

\* utterance.onstart of the utterance of speak().
SpeakStart ==
  /\ utterance.stage = "pending"
  /\ utterance' = [utterance EXCEPT !.stage = "speaking"]
  /\ aiMessage' = speakingMessage
  /\ UNCHANGED <<restOfPage, asks, nQueries, welcomeDue>>

\* utterance.onend of the utterance of speak().
SpeakEnd ==
  /\ utterance.stage = "speaking"
  /\ utterance' = NoUtterance
  /\ aiMessage' = utterance.text
  /\ UNCHANGED <<restOfPage, asks, nQueries, welcomeDue>>

\* The welcome timeout of the DOMContentLoaded handler fires, no earlier
\* than 2000 ms after it was set: MaitriAssistant.speak(welcome).
Welcome ==
  /\ welcomeDue
  /\ now >= welcomeMs
  /\ welcomeDue' = FALSE
  /\ speak(welcomeMessage)
  /\ UNCHANGED <<restOfPage, aiMessage, asks, nQueries>>

----------------------------------------------------------------------------
(* The voice button and the speech recognition *)

listeningPrompt == "Listening... Speak your command"
listeningMessage == "Listening..."
youSaidMessage == "You said: (transcript)"

\* handleError: the message for event.error.
recognitionErrorMessage(kind) ==
  CASE kind = "no-speech" -> "No speech detected. Please try again"
    [] kind = "audio-capture" ->
         "No microphone found. Please check your microphone"
    [] kind = "not-allowed" ->
         "Microphone permission denied. Please allow microphone access"
    [] OTHER -> "Error or no speech detected. Try again."

\* The variables the voice button and the recognition leave alone.
restOfVoice == <<now, heartVars, datasetLoaded, storeVars, gameVars, calls,
                 linkVars>>

\* startListening: if (window.speechSynthesis.speaking) cancel().  What may
\* be left of the utterance u: nothing when it is being spoken; while its
\* start event is still to come, browsers differ on whether `speaking` is
\* already true.
cancelIfSpeaking(u) ==
  CASE u.stage = "speaking" -> {NoUtterance}
    [] u.stage = "pending" -> {u, NoUtterance}
    [] OTHER -> {u}

\* A click on the voice button: handleVoiceToggle, with the call of
\* startListening or stopListening it makes.  recognition.start() throws
\* when the recognition has already started, and the catch block only
\* speaks; recognition.stop() does nothing when it is not active.
VoiceClick ==
  /\ nVoiceClicks < MaxVoiceClicks
  /\ nVoiceClicks' = nVoiceClicks + 1
  /\ isListening' = ~isListening
  /\ micListening' = isListening'
  /\ IF isListening'
     THEN /\ lastVoiceCall' = "start"
          /\ IF recognition = "none"
             THEN /\ aiMessage' = listeningPrompt
                  /\ speak(noRecognitionMessage)
                  /\ UNCHANGED <<assistantIsListening, recognition>>
             ELSE /\ assistantIsListening' = TRUE
                  /\ aiMessage' = listeningMessage
                  /\ IF recognition = "inactive"
                     THEN /\ recognition' = "active"
                          /\ utterance' \in cancelIfSpeaking(utterance)
                     ELSE /\ speak(startFailedMessage)
                          /\ UNCHANGED recognition
     ELSE /\ lastVoiceCall' = "stop"
          /\ aiMessage' = ""
          /\ assistantIsListening' = FALSE
          /\ recognition' = IF recognition = "active"
                            THEN "stopping" ELSE recognition
          /\ UNCHANGED utterance
  /\ UNCHANGED <<restOfVoice, trackerVars, dashboardVars, counselorVars,
                 emotionBusVars, records, asks, nQueries, welcomeDue>>

\* recognition.onresult: handleVoiceCommand, with the analyzeToneAndRespond
\* call it makes up to that call's first await (q as there).  The
\* recognition is not continuous: it ends after its result.
RecognitionResult(q) ==
  /\ recognition \in {"active", "stopping"}
  /\ recognition' = "ending"
  /\ nQueries < MaxQueries
  /\ clicksCamera(q) =>
       nEmotion < MaxSysEvents /\ userMediaPending < MaxUserMedia
  /\ analyzeToneAndRespond(q, youSaidMessage)
  /\ UNCHANGED <<restOfVoice, isModelLoaded, inflight, timers, faceSince,
                 isListening, micListening, assistantIsListening,
                 nVoiceClicks, lastVoiceCall, welcomeDue>>

\* recognition.onerror: handleError.
RecognitionError(kind) ==
  /\ recognition \in {"active", "stopping"}
  /\ recognition' = "ending"
  /\ assistantIsListening' = FALSE
  /\ aiMessage' = recognitionErrorMessage(kind)
  /\ UNCHANGED <<restOfVoice, trackerVars, dashboardVars, counselorVars,
                 emotionBusVars, records, asks, nQueries, utterance,
                 welcomeDue, isListening, micListening, nVoiceClicks,
                 lastVoiceCall>>

\* recognition.onend: handleRecognitionEnd.
RecognitionEnd ==
  /\ recognition \in {"active", "stopping", "ending"}
  /\ recognition' = "inactive"
  /\ assistantIsListening' = FALSE
  /\ aiMessage' = IF aiMessage = listeningMessage THEN "" ELSE aiMessage
  /\ UNCHANGED <<restOfVoice, trackerVars, dashboardVars, counselorVars,
                 emotionBusVars, records, asks, nQueries, utterance,
                 welcomeDue, isListening, micListening, nVoiceClicks,
                 lastVoiceCall>>

----------------------------------------------------------------------------
(* games.js: the animation loops of the two mini-games *)

\* The state the functions of a game work on: the games' variables, the
\* browser's list of pending callbacks (queue), the callbacks of the frame
\* being run that are still to come (batch), and the update() calls made.
GameState(run, raf, queue, batch, next, updates) ==
  [running |-> run, rafId |-> raf, queue |-> queue, batch |-> batch,
   next |-> next, updates |-> updates]

\* The entries of a callback list other than the one with handle h.
Without(list, h) == SelectSeq(list, LAMBDA c : c.handle # h)

\* cancelAnimationFrame(h): the callback is dropped, whether it was
\* requested for the next frame or is still to come in the running one.
cancelAnimationFrame(st, h) ==
  [st EXCEPT !.queue = Without(st.queue, h),
             !.batch = Without(st.batch, h)]

\* gameOver(): running = false; if (rafId) cancelAnimationFrame(rafId).
gameOver(st, g) ==
  LET stopped == [st EXCEPT !.running[g] = FALSE]
  IN  IF st.rafId[g] # NoHandle
      THEN cancelAnimationFrame(stopped, st.rafId[g])
      ELSE stopped

\* loop(): update(), which ends in gameOver() when `over`; the drawing;
\* then if (running) rafId = requestAnimationFrame(loop).
loop(st, g, over) ==
  LET counted == [st EXCEPT !.updates[g] = @ + 1]
      updated == IF over THEN gameOver(counted, g) ELSE counted
  IN  IF updated.running[g]
      THEN [updated EXCEPT
              !.rafId[g] = updated.next,
              !.queue = Append(@, [game |-> g, handle |-> updated.next]),
              !.next = @ + 1]
      ELSE updated

\* start() of Orbital Breaker has `if (rafId) cancelAnimationFrame(rafId)`
\* before loop(); start() of Astro Flap has not.
cancelsOnStart(g) == g = "breaker"

\* start(): the state is reset, running = true, and loop() is called.  The
\* update() of that call cannot end the game: the ship is at mid-height
\* with every pipe right of the canvas, or the ball is stuck to the paddle.
start(st, g) ==
  LET set == [st EXCEPT !.running[g] = TRUE]
      cancelled == IF cancelsOnStart(g) /\ st.rafId[g] # NoHandle
                   THEN cancelAnimationFrame(set, st.rafId[g])
                   ELSE set
  IN  loop(cancelled, g, FALSE)

\* The browser runs the callbacks of a frame in the order of their
\* requests; overs[i] tells whether the i-th update() to run ends its game.
RECURSIVE runCallbacks(_, _, _)
runCallbacks(st, overs, i) ==
  IF st.batch = <<>> THEN st
  ELSE LET c == Head(st.batch)
           taken == [st EXCEPT !.batch = Tail(@)]
       IN  runCallbacks(loop(taken, c.game, overs[i]), overs, i + 1)

\* The games' variables after a step that ends in state st.
gamesBecome(st) ==
  /\ running' = st.running
  /\ rafId' = st.rafId
  /\ rafQueue' = st.queue
  /\ nextHandle' = st.next

restOfGames == <<now, trackerVars, dashboardVars, counselorVars, heartVars,
                 emotionBusVars, datasetLoaded, storeVars, voiceVars,
                 uiVars, records, calls>>

\* A click on the Start button of game g.
StartClick(g) ==
  /\ nStarts < MaxStarts
  /\ nStarts' = nStarts + 1
  /\ gamesBecome(start(GameState(running, rafId, rafQueue, <<>>,
                                 nextHandle, frameUpdates), g))
  /\ UNCHANGED <<nFrames, frameUpdates, restOfGames>>

\* An animation frame: the browser takes the list of pending callbacks and
\* runs them; requests made meanwhile are for the next frame.
AnimationFrame(overs) ==
  /\ rafQueue # <<>>
  /\ nFrames < MaxFrames
  /\ nFrames' = nFrames + 1
  /\ LET st == runCallbacks(GameState(running, rafId, <<>>, rafQueue,
                                      nextHandle, [g \in Games |-> 0]),
                            overs, 1)
     IN  gamesBecome(st) /\ frameUpdates' = st.updates
  /\ UNCHANGED <<nStarts, restOfGames>>

----------------------------------------------------------------------------
(* Initial states *)

\* The state when the DOMContentLoaded handler has run, with `startup` the
\* value of window.currentEmotion that initDashboard found and `readings`
\* the numbers its first call of updateHealthData drew.
InitShowing(startup, dataset, rec, readings) ==
  /\ now = 0
  /\ health = readings /\ nHealthTicks = 0
  /\ isModelLoaded = FALSE /\ isCameraOn = FALSE /\ faceDetected = FALSE
  /\ lastEmotion = null /\ currentEmotion = startup
  /\ inflight = 0 /\ timers = <<>> /\ faceSince = <<>>
  /\ userMediaPending = 0 /\ metadataDue = FALSE
  /\ detectionInterval = FALSE /\ strayInterval = FALSE
  /\ playBtnDisabled = gateLocked(startup)
  /\ playLinkAriaDisabled = ariaDisabled(gateLocked(startup))
  /\ sadMoodCount = initSadMoodCount(startup)
  /\ hasRedirected = FALSE /\ navigations = 0
  /\ sadSince = Absent /\ cooldownUntil = 0 /\ speaking = FALSE /\ line = 0
  /\ heartRateData = <<>>
  /\ datasetLoaded = dataset /\ records = <<>>
  /\ nStoreOps = 0 /\ lastStoreOp = NoStoreOp
  /\ nEmotion = 0 /\ lastEmotionEvent = NoEvent /\ nSad = 0
  /\ nHeartrate = 0 /\ lastHeartrateEvent = NoEvent
  /\ nStress = 0 /\ lastStressEvent = NoEvent
  /\ calls = <<>> /\ samples = <<>>
  /\ lastPacket = <<>> /\ nDiscarded = 0
  /\ nSequences = 0 /\ lastTrigger = Absent /\ away = FALSE
  /\ nClicks = 0 /\ nFollowed = 0
  /\ aiMessage = "" /\ asks = <<>> /\ nQueries = 0
  /\ utterance = NoUtterance /\ welcomeDue = TRUE
  /\ isListening = FALSE /\ micListening = FALSE
  /\ assistantIsListening = FALSE /\ recognition = rec
  /\ nVoiceClicks = 0 /\ lastVoiceCall = "none"
  /\ running = [g \in Games |-> FALSE]
  /\ rafId = [g \in Games |-> NoHandle]
  /\ rafQueue = <<>> /\ nextHandle = 1
  /\ nStarts = 0 /\ nFrames = 0
  /\ frameUpdates = [g \in Games |-> 0]

\* The same, the health panel showing 73 BPM, 98.4 % and 0.123 mSv/h.
InitPage(startup, dataset, rec) ==
  InitShowing(startup, dataset, rec,
              [heartRate |-> 73, o2Level |-> 984, radiation |-> 123])

\* The same, in a browser that provides speech recognition.
InitWith(startup, dataset) == InitPage(startup, dataset, "inactive")

----------------------------------------------------------------------------
(* SpecBus: the subscribers of emotionchange under any sequence of events, *)
(* any timing and any utterance durations.                                 *)

BusSteps == {sustainMs, cooldownMs}

\* The emotions of the events: the trigger emotion, one other named emotion
\* and no face.
BusEmotions == {"sad", "neutral", null}

\* window.currentEmotion may already be set when initDashboard runs.
InitBus == \E startup \in {null, "sad"} : InitWith(startup, FALSE)

NextBus ==
  \/ \E e \in BusEmotions : EmitEmotion(e)
  \/ \E d \in BusSteps : Advance(d)
  \/ UtteranceEnd

SpecBus == InitBus /\ [][NextBus]_vars

----------------------------------------------------------------------------
(* SpecSystem: the running page.  The emotionchange events are those the   *)
(* mood tracker publishes, driven by the camera button, the detection      *)
(* interval, the classifier and the no-face timeouts.                      *)

SysSteps == {noFaceMs, sustainMs}

\* What the classifier reports: a named emotion, or no face.
Detections == {"sad", "happy", null}

AdvanceSys(d) == now + d <= MaxSysTime /\ Advance(d)

InitSystem == InitWith(null, FALSE)

NextSystem ==
  \/ LoadModels
  \/ StartCamera
  \/ StopCamera
  \/ UserMediaResolves
  \/ UserMediaRejects
  \/ LoadedMetadata
  \/ Poll
  \/ \E r \in Detections : DetectionDone(r)
  \/ TimerFire
  \/ \E d \in SysSteps : AdvanceSys(d)

SpecSystem == InitSystem /\ [][NextSystem]_vars

----------------------------------------------------------------------------
(* SpecTracker: the running page as in SpecSystem, followed less far: with *)
(* fewer getUserMedia calls, classifier calls and no-face timeouts pending *)
(* at a time and fewer events.                                             *)

TrkStartCamera == userMediaPending < MaxTrkMedia /\ StartCamera

TrkStopCamera == nEmotion < MaxTrkEvents /\ StopCamera

TrkPoll == inflight < MaxTrkInflight /\ Poll

TrkDetectionDone(r) ==
  /\ nEmotion < MaxTrkEvents
  /\ r = null => Len(timers) < MaxTrkTimers
  /\ DetectionDone(r)

TrkTimerFire == nEmotion < MaxTrkEvents /\ TimerFire

NextTracker ==
  \/ LoadModels
  \/ TrkStartCamera
  \/ TrkStopCamera
  \/ UserMediaResolves
  \/ UserMediaRejects
  \/ LoadedMetadata
  \/ TrkPoll
  \/ \E r \in Detections : TrkDetectionDone(r)
  \/ TrkTimerFire
  \/ \E d \in SysSteps : AdvanceSys(d)

SpecTracker == InitSystem /\ [][NextTracker]_vars

----------------------------------------------------------------------------
(* SpecCalls: any sequence of updateCurrentEmotion calls and of clicks on   *)
(* the games link, from the initial state.                                 *)

InitCalls == InitWith(null, FALSE)

NextCalls ==
  \/ \E x \in EmotionValues : CallUpdate(x)
  \/ ClickPlayLink

SpecCalls == InitCalls /\ [][NextCalls]_vars

----------------------------------------------------------------------------
(* SpecHeart: any sequence of heart-rate notifications.                    *)

\* The stream of section 8 of the specification.
Scenario == <<70, 72, 150, 155, 160>>

IsPrefix(s, t) == Len(s) <= Len(t) /\ s = SubSeq(t, 1, Len(s))

\* Notified values: too short, zero, an 8-bit and a 16-bit reading (one of
\* them with its high byte missing), and, while the accepted samples are a
\* prefix of Scenario, the 8-bit packet of its next value.
HeartPackets ==
  {<<>>, <<0>>, <<0, 0>>, <<1, 0, 0>>, <<0, 70>>, <<1, 160, 0>>, <<1, 160>>}
  \cup (IF IsPrefix(samples, Scenario) /\ Len(samples) < Len(Scenario)
        THEN {<<0, Scenario[Len(samples) + 1]>>}
        ELSE {})

InitHeart == InitWith(null, FALSE)

NextHeart == \E p \in HeartPackets : HeartRateChanged(p)

SpecHeart == InitHeart /\ [][NextHeart]_vars

----------------------------------------------------------------------------
(* SpecAssistant: any sequence of queries to the assistant, with any       *)
(* responses of the language-model service and any timing.                 *)

\* A short phrase, the word 'time', three commands that only speak ('check
\* heart rate', 'check health status', 'goodbye for now'), a concern.
Queries == {[len |-> 3, cmd |-> "none"], [len |-> 4, cmd |-> "time"],
            [len |-> 16, cmd |-> "heartRate"], [len |-> 19, cmd |-> "health"],
            [len |-> 15, cmd |-> "goodbye"], [len |-> 30, cmd |-> "none"]}

\* Success, rate limit, and two other failures.
Statuses == {200, 404, 429, 500}

\* What a successful response's body parses to.
Bodies == {"text", "noText", "null"}

AdvanceAsst(d) == now + d <= MaxAsstTime /\ Advance(d)

AsstAsk(q) == nQueries < MaxAsstQueries /\ Ask(q)

InitAssistant == InitWith(null, FALSE)

NextAssistant ==
  \/ \E q \in Queries : AsstAsk(q)
  \/ \E k \in DOMAIN asks : \E st \in Statuses : Respond(k, st)
  \/ \E k \in DOMAIN asks : FetchRejects(k)
  \/ \E k \in DOMAIN asks : BackoffDone(k)
  \/ \E k \in DOMAIN asks : \E b \in Bodies : ParseDone(k, b)
  \/ \E k \in DOMAIN asks : ParseRejects(k)
  \/ SpeakStart
  \/ SpeakEnd
  \/ Welcome
  \/ AdvanceAsst(baseDelay)

SpecAssistant == InitAssistant /\ [][NextAssistant]_vars

----------------------------------------------------------------------------
(* SpecNav: the three ways to the games page.  Any sequence of             *)
(* updateCurrentEmotion calls, of clicks on the games link and of voice    *)
(* commands.                                                               *)

\* The command 'open games' and a command that only speaks.
NavQueries == {[len |-> 10, cmd |-> "openGames"],
               [len |-> 15, cmd |-> "goodbye"]}

NavUpdate(x) == Len(calls) < MaxNavCalls /\ CallUpdate(x)

NavAsk(q) == nQueries < MaxNavQueries /\ Ask(q)

InitNav == InitWith(null, FALSE)

NextNav ==
  \/ \E x \in EmotionValues : NavUpdate(x)
  \/ ClickPlayLink
  \/ \E q \in NavQueries : NavAsk(q)
  \/ SpeakStart
  \/ SpeakEnd

SpecNav == InitNav /\ [][NextNav]_vars

----------------------------------------------------------------------------
(* SpecDataset: a page that includes dataset.js.  Any sequence of          *)
(* emotionchange events and heart-rate notifications.                      *)
(* SpecStore: the same page, with emotionchange events and any sequence of *)
(* operations of DatasetStore.                                             *)

\* A reading of 70, one of 160 (16-bit), and a reading of zero.
DsPackets == {<<0, 70>>, <<1, 160, 0>>, <<0, 0>>}

DsEmotions == {"sad", null}

DsEmit(e) == nEmotion < MaxDsEvents /\ EmitEmotion(e)

DsHeart(p) == Len(samples) < MaxDsSamples /\ HeartRateChanged(p)

InitDataset == InitWith(null, TRUE)

NextDataset ==
  \/ \E e \in DsEmotions : DsEmit(e)
  \/ \E p \in DsPackets : DsHeart(p)

SpecDataset == InitDataset /\ [][NextDataset]_vars

NextStore ==
  \/ \E e \in DsEmotions : DsEmit(e)
  \/ StoreAdd("note", [text |-> "operator"])
  \/ StoreGetAll
  \/ StoreClear
  \/ StoreExport

SpecStore == InitDataset /\ [][NextStore]_vars

----------------------------------------------------------------------------
(* SpecVoice: the voice button, the speech recognition's events and the    *)
(* answers to the queries it hands over, in a browser with or without      *)
(* speech recognition; the camera, which the commands start and stop, its  *)
(* detection loop, the health panel, which the commands read, and the      *)
(* welcome timeout.                                                        *)

VoiceQueries == {[len |-> 3, cmd |-> "none"],
                 [len |-> 15, cmd |-> "goodbye"],
                 [len |-> 15, cmd |-> "status"],
                 [len |-> 16, cmd |-> "time"],
                 [len |-> 16, cmd |-> "heartRate"],
                 [len |-> 19, cmd |-> "health"],
                 [len |-> 12, cmd |-> "startCamera"],
                 [len |-> 11, cmd |-> "stopCamera"],
                 [len |-> 20, cmd |-> "none"]}

ErrorKinds == {"no-speech", "not-allowed", "network"}

\* What updateHealthData draws: 73 BPM, 98.4 %, 0.123 mSv/h, and the least
\* heart rate with the round values 98 % and 0.15 mSv/h.
HealthReadings == {[heartRate |-> 73, o2Level |-> 984, radiation |-> 123],
                   [heartRate |-> 65, o2Level |-> 980, radiation |-> 150]}

AdvanceVoice(d) == now + d <= MaxVoiceTime /\ Advance(d)

\* What the classifier finds: a sad face, no face.
VoiceDetections == {"sad", null}

InitVoice ==
  \E rec \in {"none", "inactive"} : \E r \in HealthReadings :
    InitShowing(null, FALSE, rec, r)

NextVoice ==
  \/ VoiceClick
  \/ \E q \in VoiceQueries : RecognitionResult(q)
  \/ \E kind \in ErrorKinds : RecognitionError(kind)
  \/ RecognitionEnd
  \/ \E k \in DOMAIN asks : \E status \in {200, 500} : Respond(k, status)
  \/ \E k \in DOMAIN asks : ParseDone(k, "text")
  \/ SpeakStart
  \/ SpeakEnd
  \/ LoadModels
  \/ UserMediaResolves
  \/ UserMediaRejects
  \/ LoadedMetadata
  \/ TrkPoll
  \/ \E r \in VoiceDetections : TrkDetectionDone(r)
  \/ TrkTimerFire
  \/ Welcome
  \/ \E r \in HealthReadings : UpdateHealthData(r)
  \/ AdvanceVoice(healthEveryMs)

SpecVoice == InitVoice /\ [][NextVoice]_vars

----------------------------------------------------------------------------
(* SpecGames: games.html.  Any sequence of Start clicks and animation      *)
(* frames, each update() ending its game or not.                           *)

InitGames == InitWith(null, FALSE)

NextGames ==
  \/ \E g \in Games : StartClick(g)
  \/ \E overs \in [1..Len(rafQueue) -> BOOLEAN] : AnimationFrame(overs)

SpecGames == InitGames /\ [][NextGames]_vars

----------------------------------------------------------------------------
(* Properties of the gate and the redirect counter (SpecBus) *)

\* C1 (redirect latch): once hasRedirected is true it stays true, and no
\* later step, whatever emotionchange event it handles, navigates to
\* games.html again.
C1_RedirectLatch ==
  [][hasRedirected => (hasRedirected' /\ navigations' = navigations)]_vars

\* A 'sad' event has been handled after the redirect.
C1_Witness ==
  hasRedirected /\ navigations = 1 /\ sadMoodCount > requiredCount

\* C2 (redirect threshold): a step navigates exactly when it handles the
\* event that brings sadMoodCount (startup pre-seed included) from 2 to 3;
\* no step navigates while the count stays below 3, and the step that
\* brings it to 3 always does.
C2_RedirectThreshold ==
  [][/\ navigations' \in {navigations, navigations + 1}
     /\ (navigations' = navigations + 1)
          <=> (sadMoodCount = requiredCount - 1
               /\ sadMoodCount' = requiredCount)]_vars

\* The redirect has happened on the second 'sad' event after a pre-seeded
\* start.
C2_Witness ==
  /\ navigations = 1 /\ sadMoodCount = requiredCount
  /\ nEmotion = 2 /\ currentEmotion = "sad"

\* C8 (gate projection): once an emotionchange event has been handled, the
\* play button is enabled and the link's aria-disabled is 'false' if and
\* only if the latest event's emotion is 'sad'.
C8_GateProjection ==
  nEmotion > 0 =>
    /\ playBtnDisabled = (lastEmotionEvent.emotion # "sad")
    /\ playLinkAriaDisabled =
         (IF lastEmotionEvent.emotion = "sad" THEN "false" ELSE "true")

\* The gate is locked again by an event without a face, after a 'sad' event
\* had unlocked it.
C8_Witness ==
  /\ currentEmotion = null /\ sadMoodCount >= 1
  /\ lastEmotionEvent.type = "emotionchange"
  /\ lastEmotionEvent.emotion = null
  /\ playBtnDisabled /\ playLinkAriaDisabled = "true"

----------------------------------------------------------------------------
(* Properties of the counselor (SpecBus) *)

\* The step handles a trigger-emotion event at which the streak has lasted
\* at least sustainMs.
SustainMet ==
  /\ nEmotion' = nEmotion + 1
  /\ lastEmotionEvent'.emotion = triggerEmotion
  /\ sadSince' # Absent
  /\ now - sadSince' >= sustainMs

\* The step starts a support sequence.
Started == nSequences' = nSequences + 1

\* C4 (counselor abort), as claimed: once an emotion other than 'sad' has
\* arrived during a support sequence, the end of the current utterance
\* speaks no further line and clears _speaking, also when the mood has
\* returned to 'sad' in the meantime.
C4_AbortClaim ==
  [][(speaking /\ away /\ line' # line) => (~speaking' /\ line' = 0)]_vars

\* C5 (counselor cooldown), as claimed: of two occasions on which the
\* sustain condition is met, the earlier having started a sequence, the
\* later starts none when less than cooldownMs after it and starts one when
\* more than cooldownMs after it.
C5_CooldownClaim ==
  [][(SustainMet /\ lastTrigger # Absent) =>
       /\ (now - lastTrigger < cooldownMs => ~Started)
       /\ (now - lastTrigger > cooldownMs => Started)]_vars

\* C5 (counselor cooldown), amended: cooldownUntil is the start time of the
\* latest sequence plus cooldownMs, also after the sequence has finished;
\* an occasion less than cooldownMs after that start starts no sequence, and
\* one more than cooldownMs after it starts a sequence if and only if the
\* counselor is not still speaking.
C5_Cooldown ==
  /\ [](lastTrigger # Absent => cooldownUntil = lastTrigger + cooldownMs)
  /\ [][Started => cooldownUntil' = now + cooldownMs]_vars
  /\ [][(SustainMet /\ lastTrigger # Absent) =>
          /\ (now - lastTrigger < cooldownMs => ~Started)
          /\ (now - lastTrigger > cooldownMs => (Started <=> ~speaking))]_vars

\* A second sequence has started, after the cooldown of the first.
C5_Witness == nSequences = 2 /\ speaking /\ now > cooldownMs

----------------------------------------------------------------------------
(* Properties of the mood tracker *)

\* C3 (counselor trigger), as claimed, in the running page (SpecSystem):
\* when the tracker's mood has been 'sad' without interruption for more
\* than sustainMs and the time is at or past cooldownUntil, the counselor
\* is speaking or has started a support sequence during this streak.
C3_TriggerClaim ==
  (/\ lastEmotion = triggerEmotion
   /\ lastEmotionEvent.emotion = triggerEmotion
   /\ now - lastEmotionEvent.at > sustainMs
   /\ now >= cooldownUntil)
  => (speaking \/ (lastTrigger # Absent /\ lastTrigger >= lastEmotionEvent.at))

\* The maximal runs of identical consecutive values of s.
Runs(s) == Cardinality({i \in 1..Len(s) : i = 1 \/ s[i] # s[i - 1]})

\* The same, not counting a leading run of null.
RunsAfterNull(s) ==
  Cardinality({i \in 1..Len(s) :
                 s[i] # (IF i = 1 THEN null ELSE s[i - 1])})

\* C6 (edge-triggered tracker), as claimed (SpecCalls): the events
\* dispatched are as many as the maximal runs of the calls' arguments.
C6_EdgeClaim == nEmotion = Runs(calls)

\* C6 (edge-triggered tracker), amended: the events dispatched are as many
\* as the maximal runs of the calls' arguments not counting a leading run of
\* null, and the latest event carries the value of the latest run.
C6_EdgeTriggered ==
  /\ nEmotion = RunsAfterNull(calls)
  /\ nEmotion > 0 => lastEmotionEvent.emotion = calls[Len(calls)]

\* Calls null, sad, sad, null: two events, the second without a face.
C6_Witness ==
  /\ calls = <<null, "sad", "sad", null>>
  /\ nEmotion = 2
  /\ lastEmotionEvent.emotion = null

\* C7 (no repeated value), in the running page (SpecSystem): a step
\* dispatches at most one emotionchange event, and its emotion (null being
\* a value like any other) differs from the previous event's.
C7_NoRepeat ==
  [][nEmotion' # nEmotion =>
       /\ nEmotion' = nEmotion + 1
       /\ nEmotion > 0 => lastEmotionEvent'.emotion # lastEmotionEvent.emotion
    ]_vars

\* The face is lost, the null event has been dispatched, and a further
\* no-face timeout is due.
C7_Witness ==
  /\ isCameraOn /\ ~faceDetected
  /\ nEmotion >= 2 /\ nEmotion < MaxTrkEvents
  /\ lastEmotionEvent.emotion = null
  /\ timers # <<>> /\ now >= Head(timers)

----------------------------------------------------------------------------
(* Properties of the heart-rate aggregator (SpecHeart) *)

Min(a, b) == IF a < b THEN a ELSE b

\* The last n elements of s.
LastN(s, n) == SubSeq(s, Len(s) - n + 1, Len(s))

\* Whether the quotient q equals the arithmetic mean of the sequence s.
IsMeanOf(q, s) == Len(s) > 0 /\ q.num * Len(s) = Sum(s) * q.den

\* C9 (rolling average): the heartrate event of the latest accepted sample
\* s_k carries that sample and the arithmetic mean of the last min(k, 10)
\* accepted samples.
C9_RollingAverage ==
  Len(samples) > 0 =>
    /\ lastHeartrateEvent.type = "heartrate"
    /\ lastHeartrateEvent.value = samples[Len(samples)]
    /\ IsMeanOf(lastHeartrateEvent.average,
                LastN(samples, Min(Len(samples), avgWindow)))

\* Eleven samples, the first (160) evicted: the average is that of ten 70s.
C9_Witness ==
  /\ Len(samples) = avgWindow + 1
  /\ samples[1] = 160
  /\ \A i \in 2..Len(samples) : samples[i] = 70
  /\ lastHeartrateEvent.average.num = 70 * lastHeartrateEvent.average.den

\* C10 (stress level check): a step that accepts a sample dispatches one
\* stressdetected event (high_heart_rate, that sample, the window's mean) if
\* and only if the window then holds at least 5 samples with a mean above
\* 100, whether or not the previous sample qualified; no other step
\* dispatches one.  On the stream 70, 72, 150, 155, 160 the first is
\* dispatched on the 5th sample, with mean 607 / 5 = 121.4.
C10_StressLevel ==
  /\ [][IF samples' # samples
        THEN LET w == heartRateData'
                 q == Len(w) >= 5 /\ Sum(w) > 100 * Len(w)
             IN  /\ nStress' = IF q THEN nStress + 1 ELSE nStress
                 /\ q => /\ lastStressEvent'.type = "stressdetected"
                         /\ lastStressEvent'.kind = "high_heart_rate"
                         /\ lastStressEvent'.value = samples'[Len(samples')]
                         /\ IsMeanOf(lastStressEvent'.average, w)
        ELSE nStress' = nStress]_vars
  /\ [](IsPrefix(samples, Scenario) =>
          nStress = (IF samples = Scenario THEN 1 ELSE 0))
  /\ [](samples = Scenario =>
          lastStressEvent.average = [num |-> 607, den |-> 5])

\* Six samples, the stress event dispatched on the fifth (mean 106) and
\* again on the sixth (mean 115).
C10_Witness ==
  /\ samples = <<70, 160, 160, 70, 70, 160>>
  /\ nStress = 2
  /\ lastStressEvent.value = 160
  /\ lastStressEvent.average = [num |-> 690, den |-> 6]

\* C11 (bounded FIFO window): heartRateData never holds more than avgWindow
\* values, and it is the sequence of the most recent (up to avgWindow)
\* accepted samples in arrival order: the oldest is evicted first.
C11_BoundedWindow ==
  /\ Len(heartRateData) <= avgWindow
  /\ heartRateData = LastN(samples, Min(Len(samples), avgWindow))

\* The window is full and its oldest value (70) has been evicted by a newer
\* one: it now starts with the second sample.
C11_Witness ==
  /\ Len(samples) = avgWindow + 1
  /\ Len(heartRateData) = avgWindow
  /\ samples[1] = 70 /\ samples[2] = 160
  /\ heartRateData[1] = 160
  /\ heartRateData[avgWindow] = samples[avgWindow + 1]

\* The step handles a notification of the heart-rate characteristic.
Notified == nHeartrate' # nHeartrate \/ nDiscarded' # nDiscarded

\* C18 (one heartrate event per accepted sample): a notification whose value
\* parses to bpm > 0 dispatches exactly one heartrate event, carrying that
\* sample as value and the mean of the window after inserting it as
\* average, from the first sample on and whether or not the step also
\* dispatches a stressdetected event; so the heartrate events are as many as
\* the accepted samples.
C18_HeartrateEvent ==
  /\ [](nHeartrate = Len(samples))
  /\ [][(Notified /\ parseHeartRate(lastPacket') > 0) =>
          /\ samples' = Append(samples, parseHeartRate(lastPacket'))
          /\ nHeartrate' = nHeartrate + 1
          /\ lastHeartrateEvent'.type = "heartrate"
          /\ lastHeartrateEvent'.value = parseHeartRate(lastPacket')
          /\ lastHeartrateEvent'.average.den > 0
          /\ IsMeanOf(lastHeartrateEvent'.average, heartRateData')]_vars

\* Five samples of 160: the fifth has dispatched its heartrate event (mean
\* 160) together with a stressdetected event.
C18_Witness ==
  /\ samples = <<160, 160, 160, 160, 160>>
  /\ nHeartrate = 5 /\ nStress = 1
  /\ lastHeartrateEvent.value = 160
  /\ lastHeartrateEvent.average = [num |-> 800, den |-> 5]
  /\ lastStressEvent.at = lastHeartrateEvent.at

\* C19 (discarded sample): a notification whose value parses to a heart
\* rate <= 0 completes without dispatching a heartrate or a stressdetected
\* event and leaves the rolling window (and the recorded data) unchanged.
C19_Discard ==
  [][(Notified /\ parseHeartRate(lastPacket') <= 0) =>
       /\ nDiscarded' = nDiscarded + 1
       /\ UNCHANGED <<heartRateData, samples, nHeartrate, lastHeartrateEvent,
                      nStress, lastStressEvent, records>>]_vars

\* A 16-bit packet reading zero has been discarded while the window held
\* the stream of section 8 (mean 121.4, above the threshold).
C19_Witness ==
  /\ nDiscarded = 1 /\ lastPacket = <<1, 0, 0>>
  /\ heartRateData = Scenario
  /\ nHeartrate = 5 /\ nStress = 1

----------------------------------------------------------------------------
(* Further properties of the counselor and the redirect counter (SpecBus) *)

\* The step handles an emotionchange event.
Handled == nEmotion' = nEmotion + 1

\* C12 (single speaking sequence): a support sequence starts only while
\* none is in progress, so at most one is in progress at any time; an
\* emotionchange event with emotion 'sad' handled while _speaking is true
\* starts no sequence, issues no utterance and leaves _cooldownUntil (and
\* _speaking) unchanged.
C12_SingleSequence ==
  /\ [][nSequences' # nSequences =>
          (nSequences' = nSequences + 1 /\ ~speaking /\ speaking')]_vars
  /\ [][(speaking /\ Handled /\ lastEmotionEvent'.emotion = "sad") =>
          /\ nSequences' = nSequences
          /\ line' = line
          /\ cooldownUntil' = cooldownUntil
          /\ speaking']_vars

\* A 'sad' event has been handled during the first sequence, at a time when
\* the streak had lasted sustainMs and the cooldown was over: it started no
\* second sequence.
C12_Witness ==
  /\ speaking /\ nSequences = 1
  /\ lastEmotionEvent.emotion = "sad"
  /\ lastEmotionEvent.at >= cooldownUntil
  /\ sadSince # Absent /\ lastEmotionEvent.at - sadSince >= sustainMs

\* C14 (startup pre-seed): window.currentEmotion keeps in SpecBus the value
\* initDashboard found.  Before any emotionchange event is handled
\* sadMoodCount is 1 if that value is 'sad' and 0 otherwise; a step
\* navigates exactly when it handles the second 'sad' event after a 'sad'
\* startup, or the third after any other startup.
C14_StartupPreseed ==
  /\ [](nEmotion = 0 =>
          sadMoodCount = (IF currentEmotion = "sad" THEN 1 ELSE 0))
  /\ [][(navigations' # navigations) <=>
          /\ nSad' = nSad + 1
          /\ nSad' = (IF currentEmotion = "sad" THEN 2 ELSE 3)]_vars

\* After a 'sad' startup the events sad, (other), sad have been handled: the
\* second 'sad' event has redirected.
C14_Witness ==
  /\ currentEmotion = "sad"
  /\ nEmotion = 3 /\ nSad = 2
  /\ lastEmotionEvent.emotion = "sad"
  /\ hasRedirected /\ navigations = 1

\* C16 (streak bookkeeping): a step that handles a 'sad' event sets
\* _sadSince to the current time if it was absent and leaves it unchanged
\* otherwise; a step that handles an event with any other emotion (null
\* included) makes it absent; no other step changes it.
C16_StreakBookkeeping ==
  [][IF Handled
     THEN IF lastEmotionEvent'.emotion = "sad"
          THEN sadSince' = (IF sadSince = Absent THEN now ELSE sadSince)
          ELSE sadSince' = Absent
     ELSE sadSince' = sadSince]_vars

\* A 'sad' event has been handled later in a running streak and has left
\* its start unchanged.
C16_Witness ==
  /\ sadSince # Absent
  /\ lastEmotionEvent.emotion = "sad"
  /\ lastEmotionEvent.at > sadSince
  /\ nSad >= 2

\* C17 (ordered delivery): line is the position in the message list of the
\* utterance being spoken, 0 when there is none.  A sequence starts with
\* the first message; the next message of the list is issued only by the
\* step in which the previous utterance reports its end (a step that
\* handles no event and takes no time); the sequence ends only after at
\* least one line.  So the lines of a sequence are messages[1..k] in order,
\* with 1 <= k <= Len(messages).
C17_OrderedDelivery ==
  /\ [](IF speaking THEN line \in 1..Len(messages) ELSE line = 0)
  /\ [][line' # line =>
          \/ (nSequences' = nSequences + 1 /\ line = 0 /\ line' = 1)
          \/ /\ nSequences' = nSequences /\ ~Handled /\ now' = now
             /\ speaking /\ line >= 1
             /\ \/ (speaking' /\ line' = line + 1)
                \/ (~speaking' /\ line' = 0)]_vars

\* The last message of the list is being spoken, in the first sequence.
C17_Witness ==
  /\ speaking /\ nSequences = 1
  /\ line = Len(messages)
  /\ sadSince # Absent

----------------------------------------------------------------------------
(* Properties of the gate, the redirect and the games link (SpecCalls) *)

\* The emotionchange stream of section 8 of the specification.
GateScenario == <<"neutral", "sad", "neutral", "sad", "happy", "sad">>

\* C13 (gate and redirect scenario): starting with no current emotion,
\* while the tracker has been given a prefix of neutral, sad, neutral, sad,
\* happy, sad, each value has been dispatched as one emotionchange event;
\* the gate is unlocked after events 2, 4 and 6 and locked after events 1,
\* 3 and 5, and the redirect has been performed after event 6 and after no
\* earlier one.
C13_GateScenario ==
  (calls # <<>> /\ IsPrefix(calls, GateScenario)) =>
    LET k == Len(calls)
    IN  /\ nEmotion = k
        /\ lastEmotionEvent.emotion = GateScenario[k]
        /\ playBtnDisabled = (k \in {1, 3, 5})
        /\ playLinkAriaDisabled = (IF k \in {2, 4, 6} THEN "false" ELSE "true")
        /\ navigations = (IF k = 6 THEN 1 ELSE 0)
        /\ hasRedirected = (k = 6)

\* The whole stream has been handled: the sixth event has redirected.
C13_Witness ==
  /\ calls = GateScenario
  /\ nEmotion = 6 /\ nSad = 3
  /\ ~playBtnDisabled
  /\ navigations = 1

\* C15 (locked click): a click on the games link handled while
\* window.currentEmotion is not 'sad' is prevented (the link is not
\* followed and nothing navigates), shows the message that games unlock
\* when the mood is sad, and leaves sadMoodCount, hasRedirected, the gate
\* and window.currentEmotion unchanged.
C15_LockedClick ==
  [][(nClicks' # nClicks /\ currentEmotion # "sad") =>
       /\ nFollowed' = nFollowed
       /\ navigations' = navigations
       /\ aiMessage' = "Games unlock when your mood is detected as sad."
       /\ UNCHANGED <<sadMoodCount, hasRedirected, playBtnDisabled,
                      playLinkAriaDisabled, currentEmotion>>]_vars

\* The link has been clicked while the mood was 'happy', after two 'sad'
\* events: the click was prevented and the message is shown.
C15_Witness ==
  /\ nClicks = 1 /\ nFollowed = 0
  /\ currentEmotion = "happy"
  /\ sadMoodCount = 2 /\ ~hasRedirected
  /\ playBtnDisabled
  /\ aiMessage = lockedMessage

----------------------------------------------------------------------------
(* Properties of the assistant's remote call (SpecAssistant) *)

\* The step receives the response to the pending request of call k.
Responded(k) ==
  asks[k].lastStatus = NoStatus /\ asks'[k].lastStatus # NoStatus

\* The step sends a further request of call k.
Retried(k) == asks'[k].nRequests = asks[k].nRequests + 1

\* C20 (remote-call retry), as claimed: a call makes at most 3 retries; its
\* j-th wait is 1000 * 2^(j-1) ms; a retry is made only after a 429
\* response; and a 429 response received when fewer than 3 retries have been
\* made is followed by a wait and a retry.
C20_RetryClaim ==
  /\ [](\A k \in DOMAIN asks : asks[k].nRequests <= 1 + 3)
  /\ [](\A k \in DOMAIN asks : \A j \in 1..Len(asks[k].waits) :
          asks[k].waits[j] = 1000 * 2^(j - 1))
  /\ [][\A k \in DOMAIN asks : Retried(k) => asks[k].lastStatus = 429]_vars
  /\ [][\A k \in DOMAIN asks :
          (Responded(k) /\ asks'[k].lastStatus = 429
             /\ asks[k].nRequests - 1 < 3)
          => (/\ asks'[k].call = "backoff"
              /\ Len(asks'[k].waits) = Len(asks[k].waits) + 1)]_vars

\* The step ends call k in the catch block: the message shown is the fixed
\* fallback message, no request is sent, no wait is started, the call is
\* over, and the assistant is left as it was (the calls made are the same
\* and every other call stands where it stood).
EndsInFallback(k) ==
  /\ aiMessage' = errorMessage
  /\ asks'[k].nRequests = asks[k].nRequests
  /\ asks'[k].waits = asks[k].waits
  /\ asks'[k].call = "done"
  /\ Len(asks') = Len(asks)
  /\ \A j \in DOMAIN asks : j # k => asks'[j] = asks[j]
  /\ nQueries' = nQueries

\* C21 (remote-call failure outcome): a response that is neither ok nor
\* 429, a 429 response to the last request the loop allows, and a request
\* that itself fails (the pending request ends without a response) each end
\* the call by showing the fallback message, with no further request and no
\* wait; and whatever calls have failed or are pending, a further command
\* is handled (up to the number of commands explored).
C21_FailureOutcome ==
  /\ [](nQueries < MaxAsstQueries => ENABLED (\E q \in Queries : AsstAsk(q)))
  /\ [][\A k \in DOMAIN asks :
          (Responded(k) /\ ~(asks'[k].lastStatus \in 200..299)
             /\ asks'[k].lastStatus # 429)
          => EndsInFallback(k)]_vars
  /\ [][\A k \in DOMAIN asks :
          (Responded(k) /\ asks'[k].lastStatus = 429
             /\ asks[k].nRequests = maxRetries)
          => EndsInFallback(k)]_vars
  /\ [][\A k \in DOMAIN asks :
          (asks[k].call = "fetching" /\ asks'[k].call # "fetching"
             /\ asks'[k].lastStatus = NoStatus)
          => EndsInFallback(k)]_vars

\* The retries are exhausted: the third request of a call was answered 429
\* after waits of 1000 and 2000 ms, and the fallback message is shown.
C21_Witness ==
  /\ aiMessage = errorMessage
  /\ \E k \in DOMAIN asks :
       /\ asks[k].call = "done"
       /\ asks[k].lastStatus = 429
       /\ asks[k].nRequests = maxRetries
       /\ asks[k].waits = <<1000, 2000>>

----------------------------------------------------------------------------
(* The trigger guard (SpecBus) *)

\* C26 (trigger guard): a support sequence is started only by a step that
\* handles an emotionchange event with emotion 'sad', and only when, at
\* that event, _speaking is false, the streak has a start that lies at
\* least sustainMs back, and the time is at or past _cooldownUntil; so
\* never by a step that only lets time pass or ends an utterance, never by
\* an event with another emotion, never with a shorter streak.
C26_TriggerGuard ==
  [][nSequences' # nSequences =>
       /\ Handled
       /\ lastEmotionEvent'.emotion = "sad"
       /\ ~speaking
       /\ sadSince # Absent /\ sadSince' = sadSince
       /\ now - sadSince >= sustainMs
       /\ now >= cooldownUntil]_vars

\* The first sequence has just been started, by a 'sad' event that came
\* sustainMs or more after the start of the streak.
C26_Witness ==
  /\ nSequences = 1 /\ speaking /\ line = 1
  /\ lastTrigger = lastEmotionEvent.at /\ now = lastTrigger
  /\ lastTrigger - sadSince >= sustainMs
  /\ cooldownUntil = now + cooldownMs

----------------------------------------------------------------------------
(* Properties of the running page (SpecSystem) *)

\* C24 (no-face debounce), as claimed: a no-face timeout dispatches the
\* emotionchange event with emotion null only if no face has been detected
\* between the poll that set it at T and T + 1000 ms, also when the face
\* has been lost again since.
C24_DebounceClaim ==
  [][(timers # <<>> /\ timers' = Tail(timers) /\ nEmotion' # nEmotion)
       => ~Head(faceSince)]_vars

\* C25 (streak start in the running page): whenever _sadSince is set, the
\* current emotion is 'sad' and _sadSince is the time of the latest
\* emotionchange event, which is a 'sad' one; every 'sad' event finds
\* _sadSince absent.
C25_StreakStart ==
  /\ [](sadSince # Absent =>
          /\ currentEmotion = "sad" /\ lastEmotion = "sad"
          /\ lastEmotionEvent.emotion = "sad"
          /\ sadSince = lastEmotionEvent.at)
  /\ [][(Handled /\ lastEmotionEvent'.emotion = "sad")
          => (sadSince = Absent /\ sadSince' = now)]_vars

\* A second streak is running: its start is the time of the second 'sad'
\* event, later than the first.
C25_Witness ==
  /\ nSad = 2 /\ nEmotion = 3
  /\ sadSince > 0 /\ sadSince = lastEmotionEvent.at
  /\ lastEmotion = "sad"

\* C27 (stopped camera), as claimed: while the camera is off,
\* window.currentEmotion is null, and no step taken with the camera off
\* dispatches an emotionchange event with a non-null emotion, pending
\* classifier calls and no-face timeouts included.
C27_StoppedClaim ==
  /\ [](~isCameraOn => currentEmotion = null)
  /\ [][(~isCameraOn /\ ~isCameraOn' /\ nEmotion' # nEmotion)
          => lastEmotionEvent'.emotion = null]_vars

\* C29 (three views of the mood): window.currentEmotion equals the
\* tracker's lastEmotion, which, once an event has been dispatched, is the
\* emotion of the latest emotionchange event; the gate is unlocked exactly
\* when that value is 'sad', so the link's click check agrees with the
\* gate.
C29_ViewsAgree ==
  /\ currentEmotion = lastEmotion
  /\ nEmotion > 0 => lastEmotionEvent.emotion = lastEmotion
  /\ playBtnDisabled = (lastEmotion # "sad")
  /\ playLinkAriaDisabled = (IF lastEmotion = "sad" THEN "false" ELSE "true")
  /\ (currentEmotion # "sad") = playBtnDisabled

\* The face was lost while the mood was 'sad': the no-face timeout has
\* cleared all three views and locked the gate again.
C29_Witness ==
  /\ isCameraOn /\ ~faceDetected
  /\ nSad = 1 /\ nEmotion = 2
  /\ lastEmotionEvent.emotion = null
  /\ currentEmotion = null /\ playBtnDisabled
  /\ now >= noFaceMs

----------------------------------------------------------------------------
(* Navigation to the games page (SpecNav) *)

\* C28 (navigation only when sad): every step that assigns 'games.html' to
\* window.location.href (the automatic redirect, the command 'open games')
\* or lets a click on the games link go ahead leaves window.currentEmotion
\* equal to 'sad' at that moment.
C28_NavigationWhenSad ==
  [][(navigations' # navigations \/ nFollowed' # nFollowed)
       => currentEmotion' = "sad"]_vars

\* The games page has been opened in all three ways: by the command (before
\* the third 'sad' event), by the automatic redirect and by a click.
C28_Witness ==
  /\ navigations = 2 /\ hasRedirected
  /\ nFollowed = 1
  /\ nSad = requiredCount
  /\ currentEmotion = "sad"

----------------------------------------------------------------------------
(* Properties of the dataset log (SpecDataset, SpecStore) *)

\* The number of records of one type in a log.
CountType(log, t) == Cardinality({i \in DOMAIN log : log[i].type = t})

\* The records dataset.js writes for the latest event of each type.
EmotionRecord ==
  [type |-> "emotionchange", at |-> now,
   payload |-> [emotion |-> lastEmotionEvent.emotion]]

HeartrateRecord ==
  [type |-> "heartrate", at |-> now,
   payload |-> [value |-> lastHeartrateEvent.value,
                average |-> lastHeartrateEvent.average]]

StressRecord ==
  [type |-> "stressdetected", at |-> now,
   payload |-> [type |-> lastStressEvent.kind,
                value |-> lastStressEvent.value,
                average |-> lastStressEvent.average]]

\* C22: every emotionchange, heartrate and stressdetected event dispatched
\* appends exactly one record of its type, carrying the event's detail, at
\* the end of the log, in the order of dispatch (the heartrate record of a
\* sample before its stressdetected record); nothing else appends, so the
\* log holds as many records of each type as events of that type.
C22_DatasetRecording ==
  /\ [][nEmotion' # nEmotion
          => records' = Append(records, EmotionRecord')]_vars
  /\ [][nHeartrate' # nHeartrate /\ nStress' = nStress
          => records' = Append(records, HeartrateRecord')]_vars
  /\ [][nStress' # nStress
          => records' = records \o <<HeartrateRecord', StressRecord'>>]_vars
  /\ [][records' # records
          => nEmotion' # nEmotion \/ nHeartrate' # nHeartrate]_vars
  /\ [](/\ CountType(records, "emotionchange") = nEmotion
        /\ CountType(records, "heartrate") = nHeartrate
        /\ CountType(records, "stressdetected") = nStress
        /\ Len(records) = nEmotion + nHeartrate + nStress)

\* Records of the three types, interleaved: heart-rate samples first, a
\* stressdetected record after them, an emotionchange record at the end.
C22_Witness ==
  /\ Len(records) >= 3
  /\ records[1].type = "heartrate"
  /\ CountType(records, "stressdetected") > 0
  /\ CountType(records, "emotionchange") > 0
  /\ records[Len(records)].type = "emotionchange"
  /\ records[Len(records)].payload.emotion = "sad"

\* C23: the log is append-only.  add lengthens the log by one and leaves
\* the records before it as they were; clear leaves the log empty and is
\* the only step after which a record is gone; getAll and exportJSON leave
\* the log unchanged, getAll returns its records and exportJSON reports a
\* count equal to the number of records it contains, which are the log's.
C23_AppendOnly ==
  /\ [][nStoreOps' # nStoreOps /\ lastStoreOp'.op = "add"
          => /\ Len(records') = Len(records) + 1
             /\ SubSeq(records', 1, Len(records)) = records
             /\ records'[Len(records')].type = "note"]_vars
  /\ [][nStoreOps' # nStoreOps /\ lastStoreOp'.op = "clear"
          => records' = <<>>]_vars
  /\ [][nStoreOps' # nStoreOps /\ lastStoreOp'.op = "getAll"
          => records' = records /\ lastStoreOp'.records = records]_vars
  /\ [][nStoreOps' # nStoreOps /\ lastStoreOp'.op = "exportJSON"
          => /\ records' = records
             /\ lastStoreOp'.records = records
             /\ lastStoreOp'.count = Len(lastStoreOp'.records)]_vars
  /\ [][~IsPrefix(records, records')
          => nStoreOps' # nStoreOps /\ lastStoreOp'.op = "clear"]_vars
  /\ [][nEmotion' # nEmotion
          => /\ Len(records') = Len(records) + 1
             /\ SubSeq(records', 1, Len(records)) = records]_vars

\* An export of a log that holds a record added through the store and,
\* after it, the record of an event.
C23_Witness ==
  /\ lastStoreOp.op = "exportJSON"
  /\ lastStoreOp.count = 2
  /\ records[1].type = "note"
  /\ records[2].type = "emotionchange"

\* C30: a sample that qualifies as stress dispatches its heartrate event
\* and its stressdetected event in one handler run, both with the sample's
\* value and the same average; in the log every stressdetected record comes
\* right after the heartrate record of the same sample.
C30_StressAfterHeartrate ==
  /\ [][nStress' # nStress
          => /\ nHeartrate' = nHeartrate + 1
             /\ lastHeartrateEvent'.value = samples'[Len(samples')]
             /\ lastStressEvent'.value = lastHeartrateEvent'.value
             /\ lastStressEvent'.average = lastHeartrateEvent'.average
             /\ lastStressEvent'.average.den > 0]_vars
  /\ [](\A i \in DOMAIN records :
          records[i].type = "stressdetected"
            => /\ i > 1
               /\ records[i - 1].type = "heartrate"
               /\ records[i - 1].payload.value = records[i].payload.value
               /\ records[i - 1].payload.average
                    = records[i].payload.average)

\* A stressdetected record in the log, for a window whose first reading
\* differs from the sample that qualified.
C30_Witness ==
  /\ nStress > 0
  /\ Len(records) >= 2
  /\ records[Len(records)].type = "stressdetected"
  /\ records[Len(records)].payload.value # heartRateData[1]

----------------------------------------------------------------------------
(* Properties of the voice button (SpecVoice) *)

\* C31: the dashboard's isListening flag equals the assistant's after every
\* voice-button click, recognition result, recognition error and
\* recognition end, and a click on the voice button while the recognition
\* is inactive calls startListening.
C31_FlagsAgree ==
  /\ [](isListening = assistantIsListening)
  /\ [][nVoiceClicks' # nVoiceClicks /\ recognition = "inactive"
          => lastVoiceCall' = "start"]_vars

----------------------------------------------------------------------------
(* Properties of the mini-games (SpecGames) *)

\* The pending requestAnimationFrame callbacks of game g.
Pending(g) == {i \in DOMAIN rafQueue : rafQueue[i].game = g}

\* C32: in both mini-games at most one requestAnimationFrame callback of
\* the game is pending at any time, and no frame runs the game's update()
\* more than once.
C32_SingleLoop ==
  /\ [](\A g \in Games : Cardinality(Pending(g)) <= 1)
  /\ [](\A g \in Games : frameUpdates[g] <= 1)

====
